---- MODULE Spec2Model ----
(***************************************************************************)
(* Redka storage core: the rkey / rlist / rhash relations, the list and    *)
(* hash repositories that speak SQL to them, the triggers of the schema,   *)
(* and the transaction envelope (Update / View) of sqlx.DB.                *)
(*                                                                         *)
(* A database is a record of relations (sets of rows).  Every repository   *)
(* method is an operator from a database, the wall clock and its arguments *)
(* to a result [db, err, val]: db is the database as the method's SQL      *)
(* statements leave it, err the Go error, val the returned value.          *)
(***************************************************************************)
EXTENDS Integers, Sequences, FiniteSets, TLC

VARIABLES
    db,         \* the committed database
    now,        \* wall clock, ms (time.Now().UnixMilli())
    last,       \* the last repository call made through Update and its outcome
    driver,     \* DB.Driver of the database instance
    isPostgres, \* sqlx.isPostgres, the process-wide dialect flag
    pc,         \* SpecTx: per process position inside execTx
    txdb,       \* SpecTx: per writer, the database as its open transaction sees it
    steps,      \* SpecTx: per process, the calls its closure has made
    ret,        \* SpecTx: per process, what Update / View returned
    seen,       \* SpecTx: per reader, the result of its last read; SpecIncr: of its Incr
    serial,     \* SpecTx (history): closures of committed updates run one by one
    hist,       \* SpecTx (history): every database state that was ever committed
    sc          \* SpecScan: the Scanner of the running iteration

vars == <<db, now, last, driver, isPostgres, pc, txdb, steps, ret, seen, serial, hist, sc>>

----------------------------------------------------------------------------
\* Bounds of the model.

Keys == {"k1"}
Elems == {"a", "b"}
Fields == {"f", "g"}

MaxLen == 3         \* longest list / largest hash explored
MaxVersion == 3     \* versions explored per key
MaxTime == 1        \* clock ticks explored
MaxId == 2          \* rkey ids handed out
PosBits == 2        \* binary digits kept below one list position step
MaxInt == 3         \* integers the hash values range over: -MaxInt..MaxInt
MaxSteps == 2       \* calls one closure makes on its tx
IntBits == 3        \* width of a Go int, scaled down from 64

----------------------------------------------------------------------------
\* Program constants.

NULL == -1              \* SQL NULL in the nullable integer columns etime, len
TypeString == 1
TypeList == 2
TypeHash == 4
scanPageSize == 10

NoErr == "nil"
ErrNotFound == "ErrNotFound"
ErrKeyType == "ErrKeyType"
ErrValueType == "ErrValueType"
ErrDB == "db error"     \* any other error the database driver reports
ErrCanceled == "context canceled"       \* ctx.Err()

PosUnit == 2 ^ PosBits  \* pos 1.0 of the REAL column, in fixed point

Res(d, e, v) == [db |-> d, err |-> e, val |-> v]

EmptyDB ==
    [rkey |-> {}, rstring |-> {}, rlist |-> {}, rhash |-> {}, rset |-> {},
     rzset |-> {}, seq |-> 0]

----------------------------------------------------------------------------
\* Rows and helpers.

\* (etime is null or etime > ?)
Live(r, t) == r.etime = NULL \/ r.etime > t

\* select ... from rkey where key = ? and type = ? and (etime is null or etime > ?)
CurKey(d, key, type, t) == {r \in d.rkey : r.key = key /\ r.type = type /\ Live(r, t)}

RowOf(S) == CHOOSE r \in S : TRUE

ReplaceKey(d, old, new) == [d EXCEPT !.rkey = (@ \ {old}) \cup {new}]

ListRows(d, kid) == {r \in d.rlist : r.kid = kid}
HashRows(d, kid) == {r \in d.rhash : r.kid = kid}

MinPos(S) == CHOOSE p \in {r.pos : r \in S} : \A q \in {r.pos : r \in S} : p <= q
MaxPos(S) == CHOOSE p \in {r.pos : r \in S} : \A q \in {r.pos : r \in S} : p >= q

\* order by pos
RECURSIVE OrderByPos(_)
OrderByPos(S) ==
    IF S = {} THEN <<>>
    ELSE LET m == CHOOSE r \in S : r.pos = MinPos(S)
         IN <<m>> \o OrderByPos(S \ {m})

Reverse(s) == [i \in 1..Len(s) |-> s[Len(s) + 1 - i]]

ElemsOf(rows) == [i \in 1..Len(rows) |-> rows[i].elem]

\* limit n offset o, as each engine reads the two numbers
\* (ok = FALSE: the statement fails).
LimitOffset(rows, n, o, pg) ==
    IF pg /\ (n < 0 \/ o < 0)
    THEN [ok |-> FALSE, rows |-> <<>>]
    ELSE LET off == IF o < 0 THEN 0 ELSE o
             cnt == IF n < 0 THEN Len(rows) ELSE n
             hi == IF off + cnt > Len(rows) THEN Len(rows) ELSE off + cnt
         IN [ok |-> TRUE, rows |-> SubSeq(rows, off + 1, hi)]

----------------------------------------------------------------------------
\* Triggers of the schema.

\* rlist_on_update: before update on rlist, for each row
RlistOnUpdate(d, kid, t) ==
    LET ks == {r \in d.rkey : r.id = kid} IN
    IF ks = {} THEN d
    ELSE LET k == RowOf(ks)
         IN ReplaceKey(d, k, [k EXCEPT !.version = @ + 1])

\* rlist_on_delete doing only its "len = len - 1": the version is left alone.
RlistOnDeleteLenOnly(d, kid, t) ==
    LET ks == {r \in d.rkey : r.id = kid} IN
    IF ks = {} THEN d
    ELSE LET k == RowOf(ks)
         IN ReplaceKey(d, k, [k EXCEPT !.len = @ - 1])

\* rlist_on_delete: before delete on rlist, for each row
RlistOnDelete(d, kid, t) ==
    LET ks == {r \in d.rkey : r.id = kid} IN
    IF ks = {} THEN d
    ELSE LET k == RowOf(ks)
         IN ReplaceKey(d, k, [k EXCEPT !.version = @ + 1, !.len = @ - 1])

\* delete from rlist of the rows in S (all of one key), firing the trigger per row
RECURSIVE DeleteListRows(_, _, _)
DeleteListRows(d, S, t) ==
    IF S = {} THEN d
    ELSE LET r == RowOf(S)
             d1 == RlistOnDelete(d, r.kid, t)
         IN DeleteListRows([d1 EXCEPT !.rlist = @ \ {r}], S \ {r}, t)

\* rhash_on_insert without its "if not exists" test: every insert counts,
\* also the one that the on-conflict clause turns into an update.
RhashOnInsertAlways(d, kid, field) ==
    LET ks == {r \in d.rkey : r.id = kid} IN
    IF ks = {} THEN d
    ELSE LET k == RowOf(ks) IN ReplaceKey(d, k, [k EXCEPT !.len = @ + 1])

\* rhash_on_insert: before insert on rhash, for each row
RhashOnInsert(d, kid, field) ==
    IF ~ \E r \in d.rhash : r.kid = kid /\ r.field = field
    THEN LET ks == {r \in d.rkey : r.id = kid} IN
         IF ks = {} THEN d
         ELSE LET k == RowOf(ks) IN ReplaceKey(d, k, [k EXCEPT !.len = @ + 1])
    ELSE d

----------------------------------------------------------------------------
\* sqlx: errors.

\* The message of the engine for a NULL written to a NOT NULL column:
\* SQLite names the constraint and table.column, PostgreSQL words it its own
\* way (SQLSTATE 23502).
ErrNotNullPostgres == "null value in column violates not-null constraint"
NotNullFailed(column) ==
    IF driver = "postgres" THEN ErrNotNullPostgres
    ELSE "NOT NULL constraint failed: " \o column

\* ConstraintFailed: the error text contains
\* constraint + " constraint failed: " + column
ConstraintFailed(e, constraint, column) ==
    e = constraint \o " constraint failed: " \o column

\* The error of the upsert that sets rkey.type to NULL.
NotNullKeyType == NotNullFailed("rkey.type")

\* TypedError: a NOT NULL violation on rkey.type is ErrKeyType.
TypedError(e) == IF ConstraintFailed(e, "NOT NULL", "rkey.type") THEN ErrKeyType ELSE e

Nil == ""               \* core.Value(nil)

----------------------------------------------------------------------------
\* rlist: the list repository.

\* sqlPush with "type = excluded.type" in place of the case expression that
\* nulls the type of a key of another type: the conflicting row is updated
\* whatever its type.
SqlPushAnyType(d, t, key) ==
    LET ks == {r \in d.rkey : r.key = key} IN
    IF ks = {}
    THEN LET row == [id |-> d.seq + 1, key |-> key, type |-> TypeList,
                     version |-> 1, etime |-> NULL, len |-> 1]
         IN [err |-> NoErr, id |-> row.id, len |-> 1,
             db |-> [d EXCEPT !.rkey = @ \cup {row}, !.seq = row.id]]
    ELSE LET k == RowOf(ks)
             k1 == [k EXCEPT !.type = TypeList, !.version = @ + 1, !.len = @ + 1]
         IN [err |-> NoErr, id |-> k.id, len |-> k1.len,
             db |-> ReplaceKey(d, k, k1)]

\* sqlPush: insert into rkey ... on conflict (key) do update ... returning id, len
SqlPush(d, t, key) ==
    LET ks == {r \in d.rkey : r.key = key} IN
    IF ks = {}
    THEN LET row == [id |-> d.seq + 1, key |-> key, type |-> TypeList,
                     version |-> 1, etime |-> NULL, len |-> 1]
         IN [err |-> NoErr, id |-> row.id, len |-> 1,
             db |-> [d EXCEPT !.rkey = @ \cup {row}, !.seq = row.id]]
    ELSE LET k == RowOf(ks) IN
         IF k.type # TypeList
         THEN [err |-> NotNullKeyType, id |-> 0, len |-> 0, db |-> d]
         ELSE LET k1 == [k EXCEPT !.version = @ + 1, !.len = @ + 1]
              IN [err |-> NoErr, id |-> k.id, len |-> k1.len,
                  db |-> ReplaceKey(d, k, k1)]

\* a variant of PushPos that puts every pushed element at the back
PushPosBackOnly(rows, front) ==
    IF rows = {} THEN 0 ELSE MaxPos(rows) + PosUnit

\* sqlPushBack / sqlPushFront: coalesce(max(pos)+1, 0) / coalesce(min(pos)-1, 0)
PushPos(rows, front) ==
    IF rows = {} THEN 0
    ELSE IF front THEN MinPos(rows) - PosUnit ELSE MaxPos(rows) + PosUnit

\* Tx.push
ListPush(d, t, key, elem, front) ==
    LET k == SqlPush(d, t, key) IN
    IF k.err # NoErr THEN Res(k.db, TypedError(k.err), 0)
    ELSE LET row == [kid |-> k.id, elem |-> elem,
                     pos |-> PushPos(ListRows(k.db, k.id), front)]
         IN Res([k.db EXCEPT !.rlist = @ \cup {row}], NoErr, k.len)

\* Tx.PushBack, Tx.PushFront
PushBack(d, t, key, elem) == ListPush(d, t, key, elem, FALSE)
PushFront(d, t, key, elem) == ListPush(d, t, key, elem, TRUE)

\* Tx.pop with sqlPopBack / sqlPopFront
ListPop(d, t, key, back) ==
    LET ck == CurKey(d, key, TypeList, t) IN
    IF ck = {} THEN Res(d, ErrNotFound, Nil)
    ELSE LET rows == ListRows(d, RowOf(ck).id) IN
         IF rows = {} THEN Res(d, ErrNotFound, Nil)
         ELSE LET p == IF back THEN MaxPos(rows) ELSE MinPos(rows)
                  r == CHOOSE x \in rows : x.pos = p
              IN Res(DeleteListRows(d, {r}, t), NoErr, r.elem)

PopBack(d, t, key) == ListPop(d, t, key, TRUE)
PopFront(d, t, key) == ListPop(d, t, key, FALSE)

\* Tx.PopBackPushFront
PopBackPushFront(d, t, src, dest) ==
    LET p == PopBack(d, t, src) IN
    IF p.err # NoErr THEN Res(p.db, p.err, Nil)
    ELSE LET q == PushFront(p.db, t, dest, p.val)
         IN Res(q.db, q.err, p.val)

\* the position computed when the pivot of an insert after is sought
\* with max(pos)
NewPosAfterLast(rows, pivot, after) ==
    LET piv == {r \in rows : r.elem = pivot} IN
    IF piv = {} THEN [null |-> TRUE, pos |-> 0]
    ELSE IF after
         THEN LET p == MaxPos(piv)
                  nxt == {r \in rows : r.pos > p} IN
              [null |-> FALSE,
               pos |-> IF nxt = {} THEN p + PosUnit ELSE (p + MinPos(nxt)) \div 2]
         ELSE LET p == MinPos(piv)
                  prv == {r \in rows : r.pos < p} IN
              [null |-> FALSE,
               pos |-> IF prv = {} THEN p - PosUnit ELSE (MaxPos(prv) + p) \div 2]

\* sqlInsertAfter / sqlInsertBefore: the position computed by newpos
\* (NULL: the pivot is not in the list).  Positions are never NULL themselves,
\* so the result is tagged.
NewPos(rows, pivot, after) ==
    LET piv == {r \in rows : r.elem = pivot} IN
    IF piv = {} THEN [null |-> TRUE, pos |-> 0]
    ELSE LET p == MinPos(piv) IN
         IF after
         THEN LET nxt == {r \in rows : r.pos > p} IN
              [null |-> FALSE,
               pos |-> IF nxt = {} THEN p + PosUnit ELSE (p + MinPos(nxt)) \div 2]
         ELSE LET prv == {r \in rows : r.pos < p} IN
              [null |-> FALSE,
               pos |-> IF prv = {} THEN p - PosUnit ELSE (MaxPos(prv) + p) \div 2]

\* Tx.insert with sqlInsert, then sqlInsertAfter / sqlInsertBefore
ListInsert(d, t, key, pivot, elem, after) ==
    LET ck == CurKey(d, key, TypeList, t) IN
    IF ck = {} THEN Res(d, ErrNotFound, 0)
    ELSE LET k == RowOf(ck)
             k1 == [k EXCEPT !.version = @ + 1, !.len = @ + 1]
             d1 == ReplaceKey(d, k, k1)
             rows == ListRows(d1, k.id)
             np == NewPos(rows, pivot, after)
         IN IF rows = {} THEN Res(d1, NoErr, k1.len)
            ELSE IF np.null
            THEN \* pos is NULL: the insert violates NOT NULL on rlist.pos
                 LET e == NotNullFailed("rlist.pos") IN
                 IF ConstraintFailed(e, "NOT NULL", "rlist.pos")
                 THEN Res(d1, ErrNotFound, -1)
                 ELSE Res(d1, TypedError(e), 0)
            ELSE IF \E r \in rows : r.pos = np.pos THEN Res(d1, ErrDB, 0)
            ELSE Res([d1 EXCEPT !.rlist = @ \cup
                        {[kid |-> k.id, pos |-> np.pos, elem |-> elem]}],
                     NoErr, k1.len)

InsertAfter(d, t, key, pivot, elem) == ListInsert(d, t, key, pivot, elem, TRUE)
InsertBefore(d, t, key, pivot, elem) == ListInsert(d, t, key, pivot, elem, FALSE)

\* The rows of a live list in index order; idx < 0 reverses the ordering.
Indexed(d, t, key, desc) ==
    LET ck == CurKey(d, key, TypeList, t) IN
    IF ck = {} THEN <<>>
    ELSE LET asc == OrderByPos(ListRows(d, RowOf(ck).id))
         IN IF desc THEN Reverse(asc) ELSE asc

\* Tx.Get with sqlGet
ListGet(d, t, key, idx) ==
    LET rows == Indexed(d, t, key, idx < 0)
        i == IF idx < 0 THEN -idx - 1 ELSE idx
    IN IF i + 1 \in 1..Len(rows) THEN Res(d, NoErr, rows[i + 1].elem)
       ELSE Res(d, ErrNotFound, Nil)

\* LIndex.Run: what the command writes and returns
LIndexRun(d, t, key, index) ==
    LET g == ListGet(d, t, key, index) IN
    IF g.err = ErrNotFound THEN [reply |-> "null", val |-> g.val, err |-> NoErr]
    ELSE IF g.err # NoErr THEN [reply |-> "error", val |-> Nil, err |-> g.err]
    ELSE [reply |-> "bulk", val |-> g.val, err |-> NoErr]

\* a variant of ListSet that keeps the ascending order for a negative idx
ListSetAsc(d, t, key, idx, elem) ==
    LET rows == Indexed(d, t, key, FALSE)
        i == IF idx < 0 THEN -idx - 1 ELSE idx
    IN IF i + 1 \in 1..Len(rows)
       THEN LET r == rows[i + 1]
                d1 == RlistOnUpdate(d, r.kid, t)
            IN Res([d1 EXCEPT !.rlist = (@ \ {r}) \cup {[r EXCEPT !.elem = elem]}],
                   NoErr, Nil)
       ELSE Res(d, ErrNotFound, Nil)

\* Tx.Set with sqlSet
ListSet(d, t, key, idx, elem) ==
    LET rows == Indexed(d, t, key, idx < 0)
        i == IF idx < 0 THEN -idx - 1 ELSE idx
    IN IF i + 1 \in 1..Len(rows)
       THEN LET r == rows[i + 1]
                d1 == RlistOnUpdate(d, r.kid, t)
            IN Res([d1 EXCEPT !.rlist = (@ \ {r}) \cup {[r EXCEPT !.elem = elem]}],
                   NoErr, Nil)
       ELSE Res(d, ErrNotFound, Nil)

\* Tx.Len with sqlLen
ListLen(d, t, key) ==
    LET ck == CurKey(d, key, TypeList, t) IN
    IF ck = {} THEN Res(d, NoErr, 0) ELSE Res(d, NoErr, RowOf(ck).len)

\* bounds: case when ? < 0 then (select len from counts) + ? else ? end
Bound(len, v) == IF v < 0 THEN len + v ELSE v

\* Tx.Range.  pg: the engine is PostgreSQL.
ListRange(d, t, key, start, stop, pg) ==
    IF start > stop /\ ((start > 0 /\ stop > 0) \/ (start < 0 /\ stop < 0))
    THEN Res(d, NoErr, <<>>)
    ELSE LET ck == CurKey(d, key, TypeList, t) IN
         IF ck = {}
         THEN \* len is NULL, and so is a bound with a negative index: a NULL
              \* limit is no limit for PostgreSQL and a datatype mismatch
              \* for SQLite
              IF pg /\ start >= 0 /\ stop >= 0 /\ stop - start + 1 < 0
              THEN Res(d, ErrDB, <<>>)
              ELSE IF ~pg /\ (start < 0 \/ stop < 0)
              THEN Res(d, ErrDB, <<>>)
              ELSE Res(d, NoErr, <<>>)
         ELSE LET k == RowOf(ck)
                  s == Bound(k.len, start)
                  e == Bound(k.len, stop)
                  lo == LimitOffset(OrderByPos(ListRows(d, k.id)), e - s + 1, s, pg)
              IN IF lo.ok THEN Res(d, NoErr, ElemsOf(lo.rows))
                 ELSE Res(d, ErrDB, <<>>)

\* Tx.Trim.  flag: sqlx.IsPostgres(), which picks the statement;
\* pg: the engine that runs it.
ListTrim(d, t, key, start, stop, flag, pg) ==
    \* ctid::text is no SQLite syntax, rlist.rowid and ? are none of PostgreSQL
    IF flag # pg THEN Res(d, ErrDB, 0)
    ELSE LET ck == CurKey(d, key, TypeList, t) IN
         IF ck = {} THEN Res(d, NoErr, 0)
         ELSE LET k == RowOf(ck)
                  rows == ListRows(d, k.id)
                  s == Bound(k.len, start)
                  e == Bound(k.len, stop)
                  lo == LimitOffset(OrderByPos(rows), e - s + 1, s, pg)
                  remain == {lo.rows[i] : i \in 1..Len(lo.rows)}
              IN IF rows = {} THEN Res(d, NoErr, 0)
                 ELSE IF ~lo.ok THEN Res(d, ErrDB, 0)
                 ELSE Res(DeleteListRows(d, rows \ remain, t), NoErr,
                          Cardinality(rows \ remain))

\* Tx.Delete with sqlDelete
ListDelete(d, t, key, elem) ==
    LET ck == CurKey(d, key, TypeList, t) IN
    IF ck = {} THEN Res(d, NoErr, 0)
    ELSE LET del == {r \in ListRows(d, RowOf(ck).id) : r.elem = elem}
         IN Res(DeleteListRows(d, del, t), NoErr, Cardinality(del))

\* Tx.delete with sqlDeleteBack / sqlDeleteFront.  The statements bind four
\* parameters; with count <= 0 only three arguments are passed.
ListDeleteN(d, t, key, elem, count, back) ==
    IF count <= 0 THEN Res(d, ErrDB, 0)
    ELSE LET ord == Indexed(d, t, key, back)
             hit == SelectSeq(ord, LAMBDA r : r.elem = elem)
             n == IF count < Len(hit) THEN count ELSE Len(hit)
             del == {hit[i] : i \in 1..n}
         IN Res(DeleteListRows(d, del, t), NoErr, n)

DeleteBack(d, t, key, elem, count) == ListDeleteN(d, t, key, elem, count, TRUE)
DeleteFront(d, t, key, elem, count) == ListDeleteN(d, t, key, elem, count, FALSE)

----------------------------------------------------------------------------
\* core: values.

\* core.ToBytes of an int: strconv.Itoa
Itoa(n) == ToString(n)

\* Go's int: math.MaxInt, math.MinInt, and the wrap-around of its arithmetic
MaxGoInt == 2^(IntBits - 1) - 1
MinGoInt == 0 - 2^(IntBits - 1)
WrapInt(n) == ((n - MinGoInt) % 2^IntBits) + MinGoInt

\* the strings strconv.Atoi reads as an int: the decimal numeral, and for the
\* non-negative ones also a plus sign or a leading zero
Numerals ==
    UNION {{<<Itoa(i), i>>} \cup
           (IF i >= 0 THEN {<<"+" \o Itoa(i), i>>, <<"0" \o Itoa(i), i>>} ELSE {})
           : i \in MinGoInt..MaxGoInt}

\* A value of a Go type that core does not store (not a string, integer,
\* float, bool or byte slice).
Unsupported == "unsupported type"

\* core.IsValueType
IsValueType(v) == v # Unsupported

\* Value.Int: a missing value is 0, otherwise strconv.Atoi.
\* ok = FALSE: not an integer.
Atoi(v) ==
    IF v = Nil THEN [ok |-> TRUE, n |-> 0]
    ELSE LET m == {p \in Numerals : p[1] = v}
         IN IF m = {} THEN [ok |-> FALSE, n |-> 0]
            ELSE [ok |-> TRUE, n |-> RowOf(m)[2]]

----------------------------------------------------------------------------
\* rhash: the hash repository.

\* The live hash rows of a key: rhash join rkey on kid = rkey.id and type = 4
\* where key = ? and (etime is null or etime > ?)
LiveHash(d, t, key) ==
    LET ck == CurKey(d, key, TypeHash, t) IN
    IF ck = {} THEN {} ELSE HashRows(d, RowOf(ck).id)

SeqRange(s) == {s[i] : i \in 1..Len(s)}

\* Tx.count with sqlCount
HashCount(d, t, key, fields) ==
    Cardinality({r \in LiveHash(d, t, key) : r.field \in fields})

\* sqlSet1: insert into rkey ... on conflict (key) do update ... returning id
SqlSet1(d, t, key) ==
    LET ks == {r \in d.rkey : r.key = key} IN
    IF ks = {}
    THEN LET row == [id |-> d.seq + 1, key |-> key, type |-> TypeHash,
                     version |-> 1, etime |-> NULL, len |-> 0]
         IN [err |-> NoErr, id |-> row.id,
             db |-> [d EXCEPT !.rkey = @ \cup {row}, !.seq = row.id]]
    ELSE LET k == RowOf(ks) IN
         IF k.type # TypeHash
         THEN [err |-> NotNullKeyType, id |-> 0, db |-> d]
         ELSE [err |-> NoErr, id |-> k.id,
               db |-> ReplaceKey(d, k, [k EXCEPT !.version = @ + 1])]

\* rowid of a new rhash row
NextRowid(d) ==
    IF d.rhash = {} THEN 1
    ELSE 1 + CHOOSE m \in {r.rowid : r \in d.rhash} :
                 \A q \in {r.rowid : r \in d.rhash} : m >= q

\* sqlSet2: insert into rhash ... on conflict (kid, field) do update set value
SqlSet2(d, kid, field, value) ==
    LET d1 == RhashOnInsert(d, kid, field)
        old == {r \in d1.rhash : r.kid = kid /\ r.field = field}
    IN IF old = {}
       THEN [d1 EXCEPT !.rhash = @ \cup
                {[kid |-> kid, field |-> field, value |-> value,
                  rowid |-> NextRowid(d1)]}]
       ELSE [d1 EXCEPT !.rhash = (@ \ old) \cup
                {[RowOf(old) EXCEPT !.value = value]}]

\* Tx.set
HashSetField(d, t, key, field, value) ==
    LET k == SqlSet1(d, t, key) IN
    IF k.err # NoErr THEN Res(k.db, TypedError(k.err), 0)
    ELSE Res(SqlSet2(k.db, k.id, field, value), NoErr, 0)

\* Tx.Set
HashSet(d, t, key, field, value) ==
    LET existCount == HashCount(d, t, key, {field})
        r == HashSetField(d, t, key, field, value)
    IN IF ~IsValueType(value) THEN Res(d, ErrValueType, FALSE)
       ELSE IF r.err # NoErr THEN Res(r.db, r.err, FALSE)
       ELSE Res(r.db, NoErr, existCount = 0)

\* the loop of Tx.SetMany; items is a sequence of <<field, value>> in the
\* order the map iteration yields them
RECURSIVE SetEach(_, _, _, _)
SetEach(d, t, key, items) ==
    IF items = <<>> THEN Res(d, NoErr, 0)
    ELSE LET r == HashSetField(d, t, key, items[1][1], items[1][2]) IN
         IF r.err # NoErr THEN r
         ELSE SetEach(r.db, t, key, Tail(items))

\* Tx.SetMany
SetMany(d, t, key, items) ==
    LET existCount == HashCount(d, t, key, {it[1] : it \in SeqRange(items)})
        r == SetEach(d, t, key, items)
    IN IF \E it \in SeqRange(items) : ~IsValueType(it[2]) THEN Res(d, ErrValueType, 0)
       ELSE IF r.err # NoErr THEN Res(r.db, r.err, 0)
       ELSE Res(r.db, NoErr, Len(items) - existCount)

\* Tx.Get with sqlGet
HashGet(d, t, key, field) ==
    LET rows == {r \in LiveHash(d, t, key) : r.field = field} IN
    IF rows = {} THEN Res(d, ErrNotFound, Nil)
    ELSE Res(d, NoErr, RowOf(rows).value)

\* Tx.Exists with sqlGet
HashExists(d, t, key, field) ==
    Res(d, NoErr, \E r \in LiveHash(d, t, key) : r.field = field)

\* Tx.SetNotExists without the test of Exists
SetNotExistsOverwrites(d, t, key, field, value) ==
    IF ~IsValueType(value) THEN Res(d, ErrValueType, FALSE)
    ELSE LET r == HashSetField(d, t, key, field, value) IN
         IF r.err # NoErr THEN Res(r.db, r.err, FALSE)
         ELSE Res(r.db, NoErr, TRUE)

\* Tx.SetNotExists
SetNotExists(d, t, key, field, value) ==
    IF ~IsValueType(value) THEN Res(d, ErrValueType, FALSE)
    ELSE IF HashExists(d, t, key, field).val THEN Res(d, NoErr, FALSE)
    ELSE LET r == HashSetField(d, t, key, field, value) IN
         IF r.err # NoErr THEN Res(r.db, r.err, FALSE)
         ELSE Res(r.db, NoErr, TRUE)

\* Tx.Incr
Incr(d, t, key, field, delta) ==
    LET val == HashGet(d, t, key, field).val
        valInt == Atoi(val)
    IN IF ~valInt.ok THEN Res(d, ErrValueType, 0)
       ELSE LET newVal == WrapInt(valInt.n + delta)
                r == HashSetField(d, t, key, field, Itoa(newVal))
            IN IF r.err # NoErr THEN Res(r.db, r.err, 0)
               ELSE Res(r.db, NoErr, newVal)

\* Tx.IncrFloat, for the floats that are whole numbers: Value.Float reads
\* what Value.Int reads, and core.ToBytes writes them without a fraction.
IncrFloat(d, t, key, field, delta) ==
    LET val == HashGet(d, t, key, field).val
        valFloat == Atoi(val)
    IN IF ~valFloat.ok THEN Res(d, ErrValueType, 0)
       ELSE LET newVal == valFloat.n + delta
                r == HashSetField(d, t, key, field, Itoa(newVal))
            IN IF r.err # NoErr THEN Res(r.db, r.err, 0)
               ELSE Res(r.db, NoErr, newVal)

\* Tx.Delete with sqlDelete1, sqlDelete2
HashDelete(d, t, key, fields) ==
    IF fields = {} THEN Res(d, NoErr, 0)
    ELSE LET del == {r \in LiveHash(d, t, key) : r.field \in fields}
             n == Cardinality(del)
             d1 == [d EXCEPT !.rhash = @ \ del]
             ck == CurKey(d1, key, TypeHash, t)
         IN IF n = 0 THEN Res(d, NoErr, 0)
            ELSE IF ck = {} THEN Res(d1, NoErr, n)
            ELSE Res(ReplaceKey(d1, RowOf(ck),
                        [RowOf(ck) EXCEPT !.version = @ + 1,
                                          !.len = @ - n]),
                     NoErr, n)

\* Tx.Fields with sqlFields (the rows come in no stated order)
HashFields(d, t, key) == Res(d, NoErr, {r.field : r \in LiveHash(d, t, key)})

\* Tx.Values with sqlValues, as the bag of values: value -> how many fields
HashValues(d, t, key) ==
    LET rows == LiveHash(d, t, key)
        vs == {r.value : r \in rows}
    IN Res(d, NoErr, [v \in vs |-> Cardinality({r \in rows : r.value = v})])

\* Tx.Items with sqlItems
HashItems(d, t, key) ==
    LET rows == LiveHash(d, t, key) IN
    Res(d, NoErr, {<<r.field, r.value>> : r \in rows})

\* Tx.GetMany: one field goes through sqlGet, which selects the value column
\* alone, and the row is scanned into (field, value); more go through sqlGetMany.
GetMany(d, t, key, fields) ==
    LET rows == {r \in LiveHash(d, t, key) : r.field \in fields} IN
    IF fields = {} THEN Res(d, NoErr, {})
    ELSE IF Cardinality(fields) = 1 /\ rows # {} THEN Res(d, ErrDB, {})
    ELSE Res(d, NoErr, {<<r.field, r.value>> : r \in rows})

\* Tx.Len with sqlLen
HashLen(d, t, key) ==
    LET ck == CurKey(d, key, TypeHash, t) IN
    IF ck = {} THEN Res(d, NoErr, 0) ELSE Res(d, NoErr, RowOf(ck).len)

\* field glob ?
Glob(pattern, s) == pattern = "*" \/ pattern = s

RECURSIVE OrderByRowid(_)
OrderByRowid(S) ==
    IF S = {} THEN <<>>
    ELSE LET m == CHOOSE r \in S : \A q \in S : r.rowid <= q.rowid
         IN <<m>> \o OrderByRowid(S \ {m})

\* The fields in the order of the index rhash_pk_idx (kid, field).
FieldOrder == <<"f", "g">>

RECURSIVE OrderByField(_)
OrderByField(S) ==
    IF S = {} THEN <<>>
    ELSE LET rank(r) == CHOOSE i \in 1..Len(FieldOrder) : FieldOrder[i] = r.field
             m == CHOOSE r \in S : \A q \in S : rank(r) <= rank(q)
         IN <<m>> \o OrderByField(S \ {m})

\* Tx.Scan with sqlScan: a page and the greatest rowid in it.  pg: the engine
\* is PostgreSQL.  alt: what the statement leaves to the engine.
\*  - SQLite: sqlScan has no "order by", so "limit" cuts the rows in the order
\*    of the access path: by rowid (alt = FALSE) or by the index on
\*    (kid, field) (alt = TRUE).
\*  - PostgreSQL: the statement becomes "rhash.ctid::text > $3 and field ILIKE
\*    $4"; ILIKE has no "*" wildcard, the comparison of the ctid text with the
\*    cursor depends on the collation (alt = TRUE: it holds), and a row that
\*    passes cannot be scanned into the int id.
HashScan(d, t, key, cursor, pattern, count, pg, alt) ==
    LET cnt == IF count = 0 THEN scanPageSize ELSE count
        live == LiveHash(d, t, key)
        none == [Cursor |-> 0, Items |-> <<>>]
    IN IF pg
       THEN IF alt /\ \E r \in live : r.field = pattern
            THEN Res(d, ErrDB, none)
            ELSE Res(d, NoErr, none)
       ELSE LET rows == {r \in live : r.rowid > cursor /\ Glob(pattern, r.field)}
                ord == IF alt THEN OrderByField(rows) ELSE OrderByRowid(rows)
                page == SubSeq(ord, 1, IF cnt < Len(ord) THEN cnt ELSE Len(ord))
                maxID == IF page = <<>> THEN 0
                         ELSE CHOOSE m \in {page[i].rowid : i \in 1..Len(page)} :
                                \A i \in 1..Len(page) : page[i].rowid <= m
            IN Res(d, NoErr,
                   [Cursor |-> maxID,
                    Items |-> [i \in 1..Len(page) |-> <<page[i].field, page[i].value>>]])

\* Scanner: the iterator over the pages of Scan.  active, key, pattern,
\* pageSize, cursor, index, cur, items and err are its fields (cur: the item
\* at Item(), <<>> before the first); the others are history: ok is what the
\* last Scan() returned, calls and fetches count the Scan() calls and the
\* pages asked for, out lists the items yielded, fetched the items of the
\* pages received, stopped tells that a Scan() has returned false, and first
\* is the first error a fetch returned.
NoScanner ==
    [active |-> FALSE, key |-> "", pattern |-> "", pageSize |-> 0,
     cursor |-> 0, index |-> 0, cur |-> <<>>, items |-> <<>>, err |-> NoErr,
     ok |-> FALSE, calls |-> 0, fetches |-> 0, out |-> <<>>, fetched |-> <<>>,
     stopped |-> FALSE, first |-> NoErr]

newScanner(key, pattern, pageSize) ==
    [NoScanner EXCEPT !.active = TRUE, !.key = key, !.pattern = pattern,
                      !.pageSize = IF pageSize = 0 THEN scanPageSize ELSE pageSize]

\* Scanner.Scan; r is what tx.Scan(key, cursor, pattern, pageSize) returns
\* when it is called.  fetch: it was called.
ScannerScan(s, r) ==
    LET next == [s EXCEPT !.cur = s.items[s.index + 1], !.index = @ + 1] IN
    IF s.index < Len(s.items) THEN [sc |-> next, ok |-> TRUE, fetch |-> FALSE]
    ELSE IF r.err # NoErr
    THEN [sc |-> [s EXCEPT !.err = r.err], ok |-> FALSE, fetch |-> TRUE]
    ELSE LET s1 == [s EXCEPT !.cursor = r.val.Cursor, !.items = r.val.Items,
                             !.index = 0]
         IN IF Len(s1.items) = 0 THEN [sc |-> s1, ok |-> FALSE, fetch |-> TRUE]
            ELSE [sc |-> [s1 EXCEPT !.cur = s1.items[1], !.index = 1],
                  ok |-> TRUE, fetch |-> TRUE]

\* Scanner.Item, Scanner.Err
ScannerItem(s) == s.cur
ScannerErr(s) == s.err

----------------------------------------------------------------------------
\* rkey and rstring: the operations of the key and string repositories that
\* the list and hash repositories meet.

\* Tx.Expire: etime = now + ttl
Expire(d, t, key, ttl) ==
    LET ks == {r \in d.rkey : r.key = key /\ Live(r, t)} IN
    IF ks = {} THEN Res(d, ErrNotFound, 0)
    ELSE Res(ReplaceKey(d, RowOf(ks), [RowOf(ks) EXCEPT !.etime = t + ttl]), NoErr, 0)

\* delete from rkey of the rows in S with no "on delete cascade" on the
\* foreign key of rlist: the list rows stay.
DeleteKeyRowsNoListCascade(d, S) ==
    LET ids == {r.id : r \in S} IN
    [d EXCEPT !.rkey = @ \ S,
              !.rstring = {r \in @ : r.kid \notin ids},
              !.rhash = {r \in @ : r.kid \notin ids}]

\* delete from rkey of the rows in S; the foreign keys of rstring, rlist,
\* rhash, rset and rzset are "on delete cascade"
DeleteKeyRows(d, S) ==
    LET ids == {r.id : r \in S} IN
    [d EXCEPT !.rkey = @ \ S,
              !.rstring = {r \in @ : r.kid \notin ids},
              !.rlist = {r \in @ : r.kid \notin ids},
              !.rhash = {r \in @ : r.kid \notin ids},
              !.rset = {r \in @ : r.kid \notin ids},
              !.rzset = {r \in @ : r.kid \notin ids}]

\* Tx.Delete: the live keys among keys, with their values
KeyDelete(d, t, keys) ==
    LET S == {r \in d.rkey : r.key \in keys /\ Live(r, t)} IN
    Res(DeleteKeyRows(d, S), NoErr, Cardinality(S))

\* Tx.deleteExpired with n = 0: every row with etime <= now
DeleteExpired(d, t) ==
    LET S == {r \in d.rkey : ~Live(r, t)} IN
    Res(DeleteKeyRows(d, S), NoErr, Cardinality(S))

\* a second key name, for Rename
Other == "k2"

\* rkey Tx.Rename: ErrNotFound if key is absent; a row named newKey is
\* deleted with its payload; the row of key gets the name newKey, version + 1
Rename(d, t, key, newKey) ==
    LET ck == {r \in d.rkey : r.key = key /\ Live(r, t)} IN
    IF ck = {} THEN Res(d, ErrNotFound, 0)
    ELSE LET k == RowOf(ck)
             d1 == DeleteKeyRows(d, {r \in d.rkey : r.key = newKey})
         IN Res(ReplaceKey(d1, k, [k EXCEPT !.key = newKey, !.version = @ + 1]),
                NoErr, 0)

\* rstring Tx.Set: upsert of the key with type 1, dropping any expiration
StrSet(d, t, key, value) ==
    LET ks == {r \in d.rkey : r.key = key} IN
    IF ks = {}
    THEN LET row == [id |-> d.seq + 1, key |-> key, type |-> TypeString,
                     version |-> 1, etime |-> NULL, len |-> NULL]
         IN Res([d EXCEPT !.rkey = @ \cup {row}, !.seq = row.id,
                          !.rstring = @ \cup {[kid |-> row.id, value |-> value]}],
                NoErr, 0)
    ELSE LET k == RowOf(ks) IN
         IF k.type # TypeString THEN Res(d, TypedError(NotNullKeyType), 0)
         ELSE Res([ReplaceKey(d, k, [k EXCEPT !.version = @ + 1,
                                              !.etime = NULL])
                     EXCEPT !.rstring = {r \in @ : r.kid # k.id}
                                        \cup {[kid |-> k.id, value |-> value]}],
                  NoErr, 0)

----------------------------------------------------------------------------
\* The transaction envelope.

\* ConvertPlaceholders: the n-th '?' of the query becomes "$" and n; query is
\* a sequence of characters, and n stays below ten
RECURSIVE ConvertFrom(_, _)
ConvertFrom(query, paramNum) ==
    IF query = <<>> THEN <<>>
    ELSE IF Head(query) = "?"
    THEN <<"$", Itoa(paramNum)>> \o ConvertFrom(Tail(query), paramNum + 1)
    ELSE <<Head(query)>> \o ConvertFrom(Tail(query), paramNum)

ConvertPlaceholders(query) == ConvertFrom(query, 1)

\* what the tx of execTx hands to database/sql: PostgresTx adapts the query,
\* ending with ConvertPlaceholders; for SQLite the tx is the *sql.Tx itself
TxExec(query, pg) == IF pg THEN ConvertPlaceholders(query) ELSE query

\* execTx that commits whatever f returned: "if err != nil { return err }"
\* is missing before dtx.Commit().
ExecTxEndCommits(d, r) == r.db

\* DB.execTx, after f(tx): commit when f returned nil, otherwise the deferred
\* rollback.  d is the database before the transaction, r what f left.
ExecTxEnd(d, r) == IF r.err = NoErr THEN r.db ELSE d

Postgres == driver = "postgres"

----------------------------------------------------------------------------
\* rset and rzset: the set and sorted-set repositories.

TypeSet == 3
TypeZSet == 5

SetRows(d, kid) == {r \in d.rset : r.kid = kid}
ZSetRows(d, kid) == {r \in d.rzset : r.kid = kid}

\* The typed "create if missing" upsert on rkey: a new row, or version + 1
\* on the row of that name, or NULL written to rkey.type when the name
\* belongs to another type.
KeyUpsert(d, t, key, type) ==
    LET ks == {r \in d.rkey : r.key = key} IN
    IF ks = {}
    THEN LET row == [id |-> d.seq + 1, key |-> key, type |-> type,
                     version |-> 1, etime |-> NULL, len |-> 0]
         IN [err |-> NoErr, id |-> row.id,
             db |-> [d EXCEPT !.rkey = @ \cup {row}, !.seq = row.id]]
    ELSE LET k == RowOf(ks) IN
         IF k.type # type
         THEN [err |-> NotNullKeyType, id |-> 0, db |-> d]
         ELSE [err |-> NoErr, id |-> k.id,
               db |-> ReplaceKey(d, k, [k EXCEPT !.version = @ + 1])]

\* rset_on_insert / rzset_on_insert: rkey.len + 1 for each new row
KeyLenAdd(d, kid, n) ==
    LET ks == {r \in d.rkey : r.id = kid} IN
    IF ks = {} THEN d
    ELSE LET k == RowOf(ks) IN ReplaceKey(d, k, [k EXCEPT !.len = @ + n])

\* the members of the live set at key; none if key is missing or no set
LiveSet(d, t, key) ==
    LET ck == CurKey(d, key, TypeSet, t) IN
    IF ck = {} THEN {} ELSE {r.elem : r \in SetRows(d, RowOf(ck).id)}

\* rset add(key, elems...): the number of newly added elements
SetAdd(d, t, key, elems) ==
    LET k == KeyUpsert(d, t, key, TypeSet) IN
    IF k.err # NoErr THEN Res(d, TypedError(k.err), 0)
    ELSE LET new == elems \ {r.elem : r \in SetRows(k.db, k.id)}
             d1 == [k.db EXCEPT !.rset = @ \cup {[kid |-> k.id, elem |-> e] : e \in new}]
         IN Res(KeyLenAdd(d1, k.id, Cardinality(new)), NoErr, Cardinality(new))

\* rset inter(keys...): the elements present in all keys
SetInter(d, t, keys) ==
    Res(d, NoErr, {e \in LiveSet(d, t, keys[1]) :
                     \A i \in 1..Len(keys) : e \in LiveSet(d, t, keys[i])})

\* a difference that subtracts the second key only
SetDiffOfTwo(d, t, keys) ==
    Res(d, NoErr, {e \in LiveSet(d, t, keys[1]) :
                     Len(keys) >= 2 => e \notin LiveSet(d, t, keys[2])})

\* rset diff(keys...): the elements of the first key that are in no other
SetDiff(d, t, keys) ==
    Res(d, NoErr, {e \in LiveSet(d, t, keys[1]) :
                     \A i \in 2..Len(keys) : e \notin LiveSet(d, t, keys[i])})

\* a store step that adds the result to the set already at dest
SetStoreKeepsOld(d, t, dest, result) ==
    IF result = {} THEN Res(d, NoErr, 0) ELSE SetAdd(d, t, dest, result)

\* the store step of {diff,inter,union}Store: the set at dest is removed, and
\* a non-empty result is added to dest as a new set; a dest of another type
\* is left alone by an empty result and refuses a non-empty one
SetStore(d, t, dest, result) ==
    LET old == {r \in d.rkey : r.key = dest /\ r.type = TypeSet}
        d1 == DeleteKeyRows(d, old)
    IN IF result = {} THEN Res(d1, NoErr, 0)
       ELSE SetAdd(d1, t, dest, result)

\* rset interStore(dest, keys...)
InterStore(d, t, dest, keys) == SetStore(d, t, dest, SetInter(d, t, keys).val)

\* the rows of the live sorted set at key
LiveZSet(d, t, key) ==
    LET ck == CurKey(d, key, TypeZSet, t) IN
    IF ck = {} THEN {} ELSE ZSetRows(d, RowOf(ck).id)

\* rzset add(key, elem, score): TRUE if the element is new, otherwise its
\* score is replaced
ZAdd(d, t, key, elem, score) ==
    LET k == KeyUpsert(d, t, key, TypeZSet) IN
    IF k.err # NoErr THEN Res(d, TypedError(k.err), FALSE)
    ELSE LET old == {r \in ZSetRows(k.db, k.id) : r.elem = elem}
             row == [kid |-> k.id, elem |-> elem, score |-> score]
             d1 == [k.db EXCEPT !.rzset = (@ \ old) \cup {row}]
         IN IF old = {} THEN Res(KeyLenAdd(d1, k.id, 1), NoErr, TRUE)
            ELSE Res(d1, NoErr, FALSE)

\* a removal that leaves the members scored exactly min in place
ZDeleteByScoreAboveMin(d, t, key, min, max) ==
    LET del == {r \in LiveZSet(d, t, key) : min < r.score /\ r.score <= max}
        n == Cardinality(del)
        ck == CurKey(d, key, TypeZSet, t)
    IN IF n = 0 THEN Res(d, NoErr, 0)
       ELSE Res(ReplaceKey([d EXCEPT !.rzset = @ \ del], RowOf(ck),
                    [RowOf(ck) EXCEPT !.version = @ + 1, !.len = @ - n]),
                NoErr, n)

\* rzset deleteByScore(key, min, max): the rows of the live sorted set with
\* min <= score <= max are deleted and rkey.len is lowered by their number
ZDeleteByScore(d, t, key, min, max) ==
    LET del == {r \in LiveZSet(d, t, key) : min <= r.score /\ r.score <= max}
        n == Cardinality(del)
        ck == CurKey(d, key, TypeZSet, t)
    IN IF n = 0 THEN Res(d, NoErr, 0)
       ELSE Res(ReplaceKey([d EXCEPT !.rzset = @ \ del], RowOf(ck),
                    [RowOf(ck) EXCEPT !.version = @ + 1, !.len = @ - n]),
                NoErr, n)

\* the place of an element in the ascending order of the element bytes
ElemRank(e) == CHOOSE i \in 1..2 : <<"a", "b">>[i] = e

\* order by score, elem
RECURSIVE OrderByScore(_)
OrderByScore(S) ==
    IF S = {} THEN <<>>
    ELSE LET m == CHOOSE r \in S : \A q \in S :
                    \/ r.score < q.score
                    \/ r.score = q.score /\ ElemRank(r.elem) <= ElemRank(q.elem)
         IN <<m>> \o OrderByScore(S \ {m})

\* the items of a range: <<elem, score>>
ZItems(rows) == [i \in 1..Len(rows) |-> <<rows[i].elem, rows[i].score>>]

\* a range by rank that resolves negative indices as list Range does
ZRangeRankResolved(d, t, key, start, stop, rev) ==
    LET ord == OrderByScore(LiveZSet(d, t, key))
        seq == IF rev THEN Reverse(ord) ELSE ord
        n == Len(seq)
        from == IF start < 0 THEN (IF n + start < 0 THEN 0 ELSE n + start) ELSE start
        to == IF stop < 0 THEN n + stop ELSE IF stop >= n THEN n - 1 ELSE stop
    IN Res(d, NoErr, ZItems(SubSeq(seq, from + 1, to + 1)))

\* rzset range by rank (rangeWith(key).byRank(start, stop), desc for rev): a
\* negative start or stop selects nothing; stop is clipped at the end
ZRangeRank(d, t, key, start, stop, rev) ==
    LET ord == OrderByScore(LiveZSet(d, t, key))
        seq == IF rev THEN Reverse(ord) ELSE ord
        to == IF stop >= Len(seq) THEN Len(seq) - 1 ELSE stop
    IN IF start < 0 \/ stop < 0 THEN Res(d, NoErr, <<>>)
       ELSE Res(d, NoErr, ZItems(SubSeq(seq, start + 1, to + 1)))

\* order by elem
RECURSIVE OrderByElem(_)
OrderByElem(S) ==
    IF S = {} THEN <<>>
    ELSE LET m == CHOOSE r \in S : \A q \in S : ElemRank(r.elem) <= ElemRank(q.elem)
         IN <<m>> \o OrderByElem(S \ {m})

\* a range by score that returns the rows in the order of the index on
\* (kid, elem)
ZRangeScoreByElem(d, t, key, min, max, rev) ==
    LET rows == {r \in LiveZSet(d, t, key) : min <= r.score /\ r.score <= max}
        ord == OrderByElem(rows)
    IN Res(d, NoErr, ZItems(IF rev THEN Reverse(ord) ELSE ord))

\* rzset range by score (rangeWith(key).byScore(min, max), desc for rev),
\* both bounds inclusive
ZRangeScore(d, t, key, min, max, rev) ==
    LET rows == {r \in LiveZSet(d, t, key) : min <= r.score /\ r.score <= max}
        ord == OrderByScore(rows)
    IN Res(d, NoErr, ZItems(IF rev THEN Reverse(ord) ELSE ord))

Aggregates == {"sum", "min", "max"}

\* a fold that sums whatever the aggregate
RECURSIVE FoldSum(_, _)
FoldSum(aggregate, scores) ==
    IF Len(scores) = 1 THEN scores[1]
    ELSE scores[1] + FoldSum(aggregate, Tail(scores))

\* aggregate in {sum, min, max} folding the scores of one member
RECURSIVE Fold(_, _)
Fold(aggregate, scores) ==
    IF Len(scores) = 1 THEN scores[1]
    ELSE LET rest == Fold(aggregate, Tail(scores))
             s == scores[1]
         IN CASE aggregate = "sum" -> s + rest
              [] aggregate = "min" -> IF s < rest THEN s ELSE rest
              [] aggregate = "max" -> IF s > rest THEN s ELSE rest

ScoreOf(d, t, key, elem) == (CHOOSE r \in LiveZSet(d, t, key) : r.elem = elem).score

\* the members present in every key, each with its folded score (weights 1)
ZInter(d, t, keys, aggregate) ==
    LET common == {e \in {r.elem : r \in LiveZSet(d, t, keys[1])} :
                     \A i \in 1..Len(keys) :
                        \E r \in LiveZSet(d, t, keys[i]) : r.elem = e}
    IN {<<e, Fold(aggregate, [i \in 1..Len(keys) |-> ScoreOf(d, t, keys[i], e)])>>
          : e \in common}

\* rzset interStore(dest, keys...) with aggregate: the sorted set at dest is
\* removed, and a non-empty result is stored at dest as a new sorted set,
\* under the dest-type rule of the set store
ZInterStore(d, t, dest, keys, aggregate) ==
    LET result == ZInter(d, t, keys, aggregate)
        old == {r \in d.rkey : r.key = dest /\ r.type = TypeZSet}
        d1 == DeleteKeyRows(d, old)
        k == KeyUpsert(d1, t, dest, TypeZSet)
    IN IF result = {} THEN Res(d1, NoErr, 0)
       ELSE IF k.err # NoErr THEN Res(d1, TypedError(k.err), 0)
       ELSE Res(KeyLenAdd([k.db EXCEPT !.rzset = @ \cup
                              {[kid |-> k.id, elem |-> it[1], score |-> it[2]]
                                 : it \in result}],
                          k.id, Cardinality(result)),
                NoErr, Cardinality(result))

----------------------------------------------------------------------------
\* Spec: the repository methods, each called in an Update of its own.

\* the goroutines that call Update and View
Procs == {"p1", "p2"}
NoCall == "none"                \* no call has returned yet

\* what a View reads of the store: the list and the hash under the key
ReadAll(d, t, pg) ==
    [range |-> ListRange(d, t, "k1", 0, -1, pg).val,
     len |-> ListLen(d, t, "k1").val,
     items |-> HashItems(d, t, "k1").val]

HashVals == {"1", "x"}
SetVals == HashVals \cup {Unsupported}
Indexes == {-1, 0, 1}
Trims == {<<0, 0>>, <<1, -1>>, <<-1, -2>>, <<0, -1>>, <<-1, -3>>}
Counts == {1, 2}
Deltas == {-1, 1}
Ttls == {1}

KeyOf(d, key) == {r \in d.rkey : r.key = key}

Bounded(d) ==
    /\ d.seq <= MaxId
    /\ \A k \in d.rkey :
        /\ k.version <= MaxVersion
        /\ Cardinality(ListRows(d, k.id)) <= MaxLen
        /\ k.len <= MaxLen
    /\ \A r \in d.rhash : Atoi(r.value).ok => Atoi(r.value).n \in -MaxInt..MaxInt

NoTx == <<pc, txdb, steps, ret, seen, serial, hist, sc>>

Call(op, key, r) ==
    /\ Bounded(r.db)
    /\ db' = ExecTxEnd(db, r)
    /\ last' = [op |-> op, key |-> key, err |-> r.err, val |-> r.val]
    /\ UNCHANGED <<now, driver, isPostgres>>
    /\ UNCHANGED NoTx

DoPushBack == \E k \in Keys, e \in Elems : Call("PushBack", k, PushBack(db, now, k, e))
DoPushFront == \E k \in Keys, e \in Elems : Call("PushFront", k, PushFront(db, now, k, e))
DoPopBack == \E k \in Keys : Call("PopBack", k, PopBack(db, now, k))
DoPopFront == \E k \in Keys : Call("PopFront", k, PopFront(db, now, k))
DoPopBackPushFront ==
    \E k \in Keys, k2 \in Keys :
        Call("PopBackPushFront", k, PopBackPushFront(db, now, k, k2))
DoInsertAfter ==
    \E k \in Keys, p \in Elems, e \in Elems :
        Call("InsertAfter", k, InsertAfter(db, now, k, p, e))
DoInsertBefore ==
    \E k \in Keys, p \in Elems, e \in Elems :
        Call("InsertBefore", k, InsertBefore(db, now, k, p, e))
DoListSet ==
    \E k \in Keys, i \in Indexes, e \in Elems :
        Call("ListSet", k, ListSet(db, now, k, i, e))
DoListTrim ==
    \E k \in Keys, se \in Trims :
        Call("ListTrim", k, ListTrim(db, now, k, se[1], se[2], isPostgres, Postgres))
DoListDelete ==
    \E k \in Keys, e \in Elems : Call("ListDelete", k, ListDelete(db, now, k, e))
DoDeleteBack ==
    \E k \in Keys, e \in Elems, c \in Counts :
        Call("DeleteBack", k, DeleteBack(db, now, k, e, c))
DoDeleteFront ==
    \E k \in Keys, e \in Elems, c \in Counts :
        Call("DeleteFront", k, DeleteFront(db, now, k, e, c))

DoHashSet ==
    \E k \in Keys, f \in Fields, v \in SetVals :
        Call("HashSet", k, HashSet(db, now, k, f, v))
DoSetMany ==
    \E k \in Keys, fs \in SUBSET Fields, v \in HashVals :
        \E items \in {s \in [1..Cardinality(fs) -> fs \X {v}] :
                        \A i, j \in DOMAIN s : i # j => s[i][1] # s[j][1]} :
            Call("SetMany", k,
                 [SetMany(db, now, k, items) EXCEPT !.val = <<Len(items), @>>])
DoSetNotExists ==
    \E k \in Keys, f \in Fields, v \in HashVals :
        Call("SetNotExists", k, SetNotExists(db, now, k, f, v))
DoIncr ==
    \E k \in Keys, f \in Fields, n \in Deltas : Call("Incr", k, Incr(db, now, k, f, n))
DoIncrFloat ==
    \E k \in Keys, f \in Fields, n \in Deltas :
        Call("IncrFloat", k, IncrFloat(db, now, k, f, n))
DoHashDelete ==
    \E k \in Keys, fs \in SUBSET Fields :
        Call("HashDelete", k, HashDelete(db, now, k, fs))

DoExpire == \E k \in Keys, ttl \in Ttls : Call("Expire", k, Expire(db, now, k, ttl))
DoKeyDelete == \E k \in Keys : Call("KeyDelete", k, KeyDelete(db, now, {k}))
DoDeleteExpired == Call("DeleteExpired", "", DeleteExpired(db, now))
DoStrSet == \E k \in Keys : Call("StrSet", k, StrSet(db, now, k, "v"))

\* time passes
Tick ==
    /\ now < MaxTime
    /\ now' = now + 1
    /\ UNCHANGED <<db, last, driver, isPostgres>>
    /\ UNCHANGED NoTx

Init ==
    /\ db = EmptyDB
    /\ now = 0
    /\ last = [op |-> "Open", key |-> "", err |-> NoErr, val |-> 0]
    /\ driver \in {"sqlite", "postgres"}
    /\ isPostgres = (driver = "postgres")
    /\ pc = [p \in Procs |-> "idle"]
    /\ txdb = [p \in Procs |-> EmptyDB]
    /\ steps = [p \in Procs |-> <<>>]
    /\ ret = [p \in Procs |-> [f |-> NoCall, update |-> NoCall]]
    /\ seen = [p \in Procs |-> ReadAll(EmptyDB, 0, FALSE)]
    /\ serial = EmptyDB
    /\ hist = {EmptyDB}
    /\ sc = NoScanner

\* rkey DB.Rename
DoRename ==
    \E a \in Keys \cup {Other}, b \in Keys \cup {Other} :
        a # b /\ Call("Rename", a, Rename(db, now, a, b))

\* the operations of the key repository, and time
NextKey == DoExpire \/ DoKeyDelete \/ DoDeleteExpired \/ DoStrSet \/ Tick

\* the list repository
NextList ==
    \/ DoPushBack \/ DoPushFront \/ DoPopBack \/ DoPopFront \/ DoPopBackPushFront
    \/ DoInsertAfter \/ DoInsertBefore \/ DoListSet \/ DoListTrim
    \/ DoListDelete \/ DoDeleteBack \/ DoDeleteFront
    \/ NextKey

SpecList == Init /\ [][NextList]_vars

\* the key repository with Rename, over keys of every type
NextRename == DoRename \/ DoPushBack \/ DoHashSet \/ NextKey

SpecRename == Init /\ [][NextRename]_vars

\* the hash repository
NextHash ==
    \/ DoHashSet \/ DoSetMany \/ DoSetNotExists \/ DoIncr \/ DoIncrFloat \/ DoHashDelete
    \/ NextKey

SpecHash == Init /\ [][NextHash]_vars

\* both repositories on one store
Next == NextList \/ NextHash

Spec == Init /\ [][Next]_vars

----------------------------------------------------------------------------
\* SpecSet: the set and sorted-set repositories, each call in an Update of
\* its own, over three keys.

Dest == "dest"
SetKeys == {"k1", Other, Dest}
SrcKeys == {<<"k1">>, <<"k1", Other>>}
Scores == {1, 2}
MaxSetId == 3       \* rkey ids handed out in SpecSet
MaxSetVersion == 2  \* rkey.version reached in SpecSet

BoundedSet(d) ==
    /\ d.seq <= MaxSetId
    /\ \A k \in d.rkey : k.version <= MaxSetVersion

CallSet(op, key, r) ==
    /\ BoundedSet(r.db)
    /\ db' = ExecTxEnd(db, r)
    /\ last' = [op |-> op, key |-> key, err |-> r.err, val |-> r.val]
    /\ UNCHANGED <<now, driver, isPostgres>>
    /\ UNCHANGED NoTx

DoSetAdd ==
    \E k \in SetKeys, es \in (SUBSET Elems) \ {{}} :
        CallSet("SetAdd", k, SetAdd(db, now, k, es))
DoInterStore ==
    \E keys \in SrcKeys : CallSet("InterStore", Dest, InterStore(db, now, Dest, keys))
DoStrSetAny == \E k \in {Other, Dest} : CallSet("StrSet", k, StrSet(db, now, k, "v"))
DoKeyDeleteAny == \E k \in SetKeys : CallSet("KeyDelete", k, KeyDelete(db, now, {k}))

NextSet == DoSetAdd \/ DoInterStore \/ DoStrSetAny \/ DoKeyDeleteAny

SpecSet == Init /\ [][NextSet]_vars

\* SpecZSet: the sorted-set repository over the same keys; the first key may
\* also be made a set, and dest a string.

\* the scores given to the members of each key
ScoresOf(k) == IF k = "k1" THEN Scores ELSE {2}

DoZAdd ==
    \E k \in SetKeys, e \in Elems :
        \E s \in ScoresOf(k) : CallSet("ZAdd", k, ZAdd(db, now, k, e, s))
DoZInterStore ==
    \E keys \in SrcKeys, a \in Aggregates :
        CallSet("ZInterStore", Dest, ZInterStore(db, now, Dest, keys, a))
DoSetAddFirst == CallSet("SetAdd", "k1", SetAdd(db, now, "k1", {"a"}))

NextZSet == DoZAdd \/ DoZInterStore \/ DoStrSetAny \/ DoSetAddFirst \/ DoInterStore

SpecZSet == Init /\ [][NextZSet]_vars

----------------------------------------------------------------------------
\* SpecTx: Update and View called from several goroutines.

\* SpecZRem: sorted sets with scores of both signs, and their removal by
\* score, over two keys of which the second may be a string.

SignedScores == {-1, 1, 2}
ScoreBounds == -2..2
ZRemKeys == {"k1", Other}

DoZAddSigned ==
    \E k \in ZRemKeys, e \in Elems, s \in SignedScores :
        Call("ZAdd", k, ZAdd(db, now, k, e, s))
DoZDeleteByScore ==
    \E k \in ZRemKeys, min \in SignedScores, max \in SignedScores :
        Call("ZDeleteByScore", k, ZDeleteByScore(db, now, k, min, max))
DoStrSetOther == Call("StrSet", Other, StrSet(db, now, Other, "v"))

NextZRem == DoZAddSigned \/ DoZDeleteByScore \/ DoStrSetOther

SpecZRem == Init /\ [][NextZRem]_vars

----------------------------------------------------------------------------

\* SpecDialect: a list repository in a process that constructs further
\* database instances.

Drivers == {"sqlite", "postgres"}

\* SetPostgres: the value left in sqlx.isPostgres
SetPostgres(postgres) == postgres

\* New (and Open, which calls it), for another instance with driver d
DoNew ==
    \E d \in Drivers :
        /\ isPostgres' = SetPostgres(d = "postgres")
        /\ last' = [op |-> "New", key |-> d, err |-> NoErr, val |-> 0]
        /\ UNCHANGED <<db, now, driver>>
        /\ UNCHANGED NoTx

NextDialect == DoPushBack \/ DoListTrim \/ DoNew

SpecDialect == Init /\ [][NextDialect]_vars

----------------------------------------------------------------------------

\* SpecQuery: statements on their way to the database.

QueryChars == {"?", "k", ","}
MaxQueryLen == 3
Queries == UNION {[1..n -> QueryChars] : n \in 0..MaxQueryLen}

Issue(op, query, sent) ==
    /\ last' = [op |-> op, key |-> query, err |-> NoErr, val |-> sent]
    /\ UNCHANGED <<db, now, driver, isPostgres>>
    /\ UNCHANGED NoTx

\* hash Tx.Delete, list Tx.push, Tx.insert, Tx.delete: the repository converts
\* the statement itself and executes it on its tx
DoExecConverted ==
    \E q \in Queries :
        Issue("ExecConverted", q, TxExec(ConvertPlaceholders(q), Postgres))

\* list Tx.Trim: the statement goes to the tx as written
DoExecWritten == \E q \in Queries : Issue("ExecWritten", q, TxExec(q, Postgres))

NextQuery == DoExecConverted \/ DoExecWritten

SpecQuery == Init /\ [][NextQuery]_vars

----------------------------------------------------------------------------

\* SpecScan: one hash, written while no iteration runs, and a Scanner over
\* it whose Scan() is called again and again.

MaxScanCalls == 5
PageSizes == {0, 1}
ScanErrors == {ErrDB, ErrCanceled}

DoHashSetIdle ==
    /\ ~sc.active
    /\ \E f \in Fields : Call("HashSet", "k1", HashSet(db, now, "k1", f, "x"))

\* Tx.Scanner(key, pattern, pageSize)
DoScanner ==
    /\ ~sc.active
    /\ \E pageSize \in PageSizes : sc' = newScanner("k1", "*", pageSize)
    /\ last' = [op |-> "Scanner", key |-> "k1", err |-> NoErr, val |-> 0]
    /\ UNCHANGED <<db, now, driver, isPostgres, pc, txdb, steps, ret, seen, serial, hist>>

\* one call of sc.Scan(); the fetch it may make returns a page of the hash,
\* in one of the orders the statement allows, or fails with an error of the
\* connection or of the context
DoScannerScan ==
    /\ sc.active /\ sc.calls < MaxScanCalls
    /\ \E alt \in BOOLEAN, fail \in {NoErr} \cup ScanErrors :
        LET r == IF fail # NoErr
                 THEN Res(db, fail, [Cursor |-> 0, Items |-> <<>>])
                 ELSE HashScan(db, now, sc.key, sc.cursor, sc.pattern,
                               sc.pageSize, Postgres, alt)
            c == ScannerScan(sc, r)
            got == c.fetch /\ r.err = NoErr
            failed == c.fetch /\ r.err # NoErr
        IN /\ sc' = [c.sc EXCEPT
                       !.ok = c.ok,
                       !.calls = @ + 1,
                       !.fetches = IF c.fetch THEN @ + 1 ELSE @,
                       !.fetched = IF got THEN @ \o r.val.Items ELSE @,
                       !.out = IF c.ok THEN Append(@, ScannerItem(c.sc)) ELSE @,
                       !.stopped = @ \/ ~c.ok,
                       !.first = IF failed /\ @ = NoErr THEN r.err ELSE @]
           /\ last' = [op |-> "Scan", key |-> sc.key, err |-> ScannerErr(c.sc),
                       val |-> c.ok]
    /\ UNCHANGED <<db, now, driver, isPostgres, pc, txdb, steps, ret, seen, serial, hist>>

NextScan == DoHashSetIdle \/ DoScanner \/ DoScannerScan

SpecScan == Init /\ [][NextScan]_vars

----------------------------------------------------------------------------

ErrForced == "forcing rollback"     \* an error of the closure's own

\* the calls a closure makes on its tx
TxOps == {"PushBack", "PopBack", "HashSet"}

\* SpecIncr: the Incr calls a closure makes, and their deltas
IncrOps == {"Incr1", "Incr2"}
Delta(op) == IF op = "Incr1" THEN 1 ELSE 2

ApplyOp(d, t, op) ==
    CASE op = "PushBack" -> PushBack(d, t, "k1", "a")
      [] op = "PopBack" -> PopBack(d, t, "k1")
      [] op = "HashSet" -> HashSet(d, t, "k1", "f", "1")
      [] op \in IncrOps -> Incr(d, t, "k1", "f", Delta(op))

\* a closure that makes the calls ops in turn and returns the first error
RECURSIVE RunClosure(_, _, _)
RunClosure(d, t, ops) ==
    IF ops = <<>> THEN Res(d, NoErr, 0)
    ELSE LET r == ApplyOp(d, t, ops[1]) IN
         IF r.err # NoErr THEN Res(r.db, r.err, 0)
         ELSE RunClosure(r.db, t, Tail(ops))

\* a variant of WriterFree for a read-write handle with no limit on its open
\* connections: BeginTx never waits.
WriterFreeAlways == TRUE

\* setNumConns: RW.SetMaxOpenConns(1).  RW.BeginTx gets the one connection
\* only when no transaction holds it.
WriterFree == \A q \in Procs : pc[q] \notin {"update", "returned"}

\* a variant of ViewSource for a reader that shares the writer's connection:
\* it reads the rows the open transaction has written.
ViewSourceDirty(p) ==
    IF \E q \in Procs : pc[q] = "update"
    THEN txdb[CHOOSE q \in Procs : pc[q] = "update"]
    ELSE db

\* the rows a statement of the View of p reads, through RO.BeginTx: SQLite
\* reads the committed snapshot of the transaction's first read, PostgreSQL
\* the rows committed when the statement starts
ViewSource(p) == IF Postgres \/ pc[p] = "view" THEN db ELSE txdb[p]

\* execTx(writable = true), up to f(tx)
UpdateBegin(p) ==
    /\ pc[p] = "idle" /\ WriterFree
    /\ pc' = [pc EXCEPT ![p] = "update"]
    /\ txdb' = [txdb EXCEPT ![p] = db]
    /\ steps' = [steps EXCEPT ![p] = <<>>]
    /\ ret' = [ret EXCEPT ![p] = [f |-> NoCall, update |-> NoCall]]
    /\ UNCHANGED <<db, now, last, driver, isPostgres, sc, seen, serial, hist>>

\* f makes a call on tx; if the call fails f returns its error
UpdateCall(p) ==
    \E op \in TxOps :
        LET r == ApplyOp(txdb[p], now, op) IN
        /\ pc[p] = "update" /\ Len(steps[p]) < MaxSteps
        /\ Bounded(r.db)
        /\ txdb' = [txdb EXCEPT ![p] = r.db]
        /\ steps' = [steps EXCEPT ![p] = Append(@, op)]
        /\ IF r.err # NoErr
           THEN /\ pc' = [pc EXCEPT ![p] = "returned"]
                /\ ret' = [ret EXCEPT ![p].f = r.err]
           ELSE UNCHANGED <<pc, ret>>
        /\ UNCHANGED <<db, now, last, driver, isPostgres, sc, seen, serial, hist>>

\* f returns nil, or an error of its own
UpdateReturn(p) ==
    \E e \in {NoErr, ErrForced} :
        /\ pc[p] = "update"
        /\ pc' = [pc EXCEPT ![p] = "returned"]
        /\ ret' = [ret EXCEPT ![p].f = e]
        /\ UNCHANGED <<db, now, last, driver, isPostgres, sc, txdb, steps, seen, serial, hist>>

\* execTx after f(tx): return err with the deferred Rollback, or Commit
UpdateEnd(p) ==
    /\ pc[p] = "returned"
    /\ db' = ExecTxEnd(db, Res(txdb[p], ret[p].f, 0))
    /\ ret' = [ret EXCEPT ![p].update = ret[p].f]
    /\ pc' = [pc EXCEPT ![p] = "idle"]
    /\ serial' = IF ret[p].f = NoErr
                 THEN ExecTxEnd(serial, RunClosure(serial, now, steps[p]))
                 ELSE serial
    /\ hist' = hist \cup {db'}
    /\ UNCHANGED <<now, last, driver, isPostgres, sc, txdb, steps, seen>>

\* execTx(writable = false), up to f(tx)
ViewBegin(p) ==
    /\ pc[p] = "idle"
    /\ pc' = [pc EXCEPT ![p] = "view"]
    /\ steps' = [steps EXCEPT ![p] = <<>>]
    /\ ret' = [ret EXCEPT ![p] = [f |-> NoCall, update |-> NoCall]]
    /\ UNCHANGED <<db, now, last, driver, isPostgres, sc, txdb, seen, serial, hist>>

\* f reads through tx
ViewRead(p) ==
    /\ pc[p] \in {"view", "reading"} /\ Len(steps[p]) < MaxSteps
    /\ seen' = [seen EXCEPT ![p] = ReadAll(ViewSource(p), now, Postgres)]
    /\ txdb' = [txdb EXCEPT ![p] = ViewSource(p)]
    /\ pc' = [pc EXCEPT ![p] = "reading"]
    /\ steps' = [steps EXCEPT ![p] = Append(@, "read")]
    /\ UNCHANGED <<db, now, last, driver, isPostgres, sc, ret, serial, hist>>

\* f returns nil and execTx ends the read-only transaction
ViewEnd(p) ==
    /\ pc[p] \in {"view", "reading"}
    /\ pc' = [pc EXCEPT ![p] = "idle"]
    /\ ret' = [ret EXCEPT ![p] = [f |-> NoErr, update |-> NoErr]]
    /\ UNCHANGED <<db, now, last, driver, isPostgres, sc, txdb, steps, seen, serial, hist>>

ErrTxDone == "sql: transaction has already been committed or rolled back"

\* a variant of EndCancelled for a transaction begun with
\* context.Background() in place of ctx: the cancellation is not noticed.
EndCancelledUnbound(d, r) == Res(ExecTxEnd(d, r), r.err, 0)

\* execTx after f(tx) when the ctx given to BeginTx was cancelled while the
\* transaction was open: the transaction is rolled back already; an error of
\* f is returned as it is, and with nil dtx.Commit() returns the context's
\* error.  d: the store, r: what f left and returned.
EndCancelled(d, r) == Res(d, IF r.err # NoErr THEN r.err ELSE ErrCanceled, 0)

\* the ctx of UpdateContext / ViewContext is cancelled while the transaction
\* of p is open; the connection goes back to the handle
Cancel(p) ==
    /\ pc[p] \in {"update", "returned", "view", "reading"}
    /\ pc' = [pc EXCEPT ![p] = IF pc[p] = "returned" THEN "cancelledRet"
                                                      ELSE "cancelled"]
    /\ ret' = [ret EXCEPT ![p].f = IF pc[p] = "returned" THEN @ ELSE NoCall]
    /\ UNCHANGED <<db, now, last, driver, isPostgres, sc, txdb, steps, seen, serial, hist>>

\* f makes a call on the tx of a cancelled context: the call fails, and f
\* returns its error
CancelledCall(p) ==
    /\ pc[p] = "cancelled"
    /\ pc' = [pc EXCEPT ![p] = "cancelledRet"]
    /\ ret' = [ret EXCEPT ![p].f = ErrTxDone]
    /\ UNCHANGED <<db, now, last, driver, isPostgres, sc, txdb, steps, seen, serial, hist>>

\* f returns nil, or an error of its own, after the cancellation
CancelledReturn(p) ==
    \E e \in {NoErr, ErrForced} :
        /\ pc[p] = "cancelled"
        /\ pc' = [pc EXCEPT ![p] = "cancelledRet"]
        /\ ret' = [ret EXCEPT ![p].f = e]
        /\ UNCHANGED <<db, now, last, driver, isPostgres, sc, txdb, steps, seen, serial, hist>>

\* execTx after f(tx), the context cancelled
CancelledEnd(p) ==
    LET r == EndCancelled(db, Res(txdb[p], ret[p].f, 0)) IN
    /\ pc[p] = "cancelledRet"
    /\ db' = r.db
    /\ ret' = [ret EXCEPT ![p].update = r.err]
    /\ pc' = [pc EXCEPT ![p] = "idle"]
    /\ hist' = hist \cup {db'}
    /\ UNCHANGED <<now, last, driver, isPostgres, sc, txdb, steps, seen, serial>>

NextTx ==
    \E p \in Procs :
        \/ UpdateBegin(p) \/ UpdateCall(p) \/ UpdateReturn(p) \/ UpdateEnd(p)
        \/ ViewBegin(p) \/ ViewRead(p) \/ ViewEnd(p)
        \/ Cancel(p) \/ CancelledCall(p) \/ CancelledReturn(p) \/ CancelledEnd(p)

SpecTx == Init /\ [][NextTx]_vars

\* SpecIncr: two goroutines, each calling Update once with a closure that
\* makes one hash Incr on the same field, after the field was set or not.

Seeds == {"-2", "1"}

\* the field is given a value before either Update is called
DoSeed ==
    /\ last.op = "Open"
    /\ \A p \in Procs : pc[p] = "idle" /\ ret[p].update = NoCall
    /\ \E v \in Seeds :
        LET r == HashSet(db, now, "k1", "f", v) IN
        /\ db' = ExecTxEnd(db, r)
        /\ last' = [op |-> "Seed", key |-> "k1", err |-> r.err, val |-> v]
    /\ UNCHANGED <<now, driver, isPostgres>>
    /\ UNCHANGED NoTx

IncrBegin(p) == ret[p].update = NoCall /\ UpdateBegin(p)

\* f calls tx.Incr and keeps what it returns
IncrCall(p) ==
    \E op \in IncrOps :
        LET r == ApplyOp(txdb[p], now, op) IN
        /\ pc[p] = "update" /\ steps[p] = <<>>
        /\ txdb' = [txdb EXCEPT ![p] = r.db]
        /\ steps' = [steps EXCEPT ![p] = <<op>>]
        /\ seen' = [seen EXCEPT ![p] = r.val]
        /\ IF r.err # NoErr
           THEN /\ pc' = [pc EXCEPT ![p] = "returned"]
                /\ ret' = [ret EXCEPT ![p].f = r.err]
           ELSE UNCHANGED <<pc, ret>>
        /\ UNCHANGED <<db, now, last, driver, isPostgres, sc, serial, hist>>

NextIncr ==
    \/ DoSeed
    \/ \E p \in Procs : IncrBegin(p) \/ IncrCall(p) \/ UpdateReturn(p) \/ UpdateEnd(p)

SpecIncr == Init /\ [][NextIncr]_vars

\* SpecCalls: goroutines that call Update and View again and again.  A call
\* of Update waits in RW.BeginTx until the connection of the read-write
\* handle is free.

\* a read-write handle whose BeginTx also waits while another goroutine is
\* waiting for the connection
WriterGrantedUnlessAsked(p) ==
    \A q \in Procs \ {p} : pc[q] \notin {"update", "returned", "waiting"}

\* database/sql: the one connection of RW is given to a request only when no
\* transaction holds it
WriterGranted(p) == \A q \in Procs \ {p} : pc[q] \notin {"update", "returned"}

\* Update is called: execTx asks RW.BeginTx for the connection
UpdateCalled(p) ==
    /\ pc[p] = "idle"
    /\ pc' = [pc EXCEPT ![p] = "waiting"]
    /\ steps' = [steps EXCEPT ![p] = <<>>]
    /\ ret' = [ret EXCEPT ![p] = [f |-> NoCall, update |-> NoCall]]
    /\ UNCHANGED <<db, now, last, driver, isPostgres, sc, txdb, seen, serial, hist>>

\* RW.BeginTx returns with the connection
Acquire(p) ==
    /\ pc[p] = "waiting" /\ WriterGranted(p)
    /\ pc' = [pc EXCEPT ![p] = "update"]
    /\ txdb' = [txdb EXCEPT ![p] = db]
    /\ UNCHANGED <<db, now, last, driver, isPostgres, sc, steps, ret, seen, serial, hist>>

\* f makes its one call on tx; if the call fails f returns its error
WriteCall(p) ==
    LET r == ApplyOp(txdb[p], now, "HashSet") IN
    /\ pc[p] = "update" /\ steps[p] = <<>>
    /\ Bounded(r.db)
    /\ txdb' = [txdb EXCEPT ![p] = r.db]
    /\ steps' = [steps EXCEPT ![p] = <<"HashSet">>]
    /\ IF r.err # NoErr
       THEN /\ pc' = [pc EXCEPT ![p] = "returned"]
            /\ ret' = [ret EXCEPT ![p].f = r.err]
       ELSE UNCHANGED <<pc, ret>>
    /\ UNCHANGED <<db, now, last, driver, isPostgres, sc, seen, serial, hist>>

NextCalls ==
    \E p \in Procs :
        \/ UpdateCalled(p) \/ Acquire(p) \/ WriteCall(p)
        \/ UpdateReturn(p) \/ UpdateEnd(p)
        \/ ViewBegin(p) \/ ViewRead(p) \/ ViewEnd(p)

SpecCalls == Init /\ [][NextCalls]_vars

\* The closures terminate and execTx runs on after them (weak fairness); the
\* free connection goes to a waiting request picked at random, so a request
\* that can be served again and again is served (strong fairness).
SpecCallsFair ==
    /\ SpecCalls
    /\ \A p \in Procs :
        /\ WF_vars(UpdateReturn(p)) /\ WF_vars(UpdateEnd(p)) /\ WF_vars(ViewEnd(p))
        /\ SF_vars(Acquire(p))

\* SpecView: closures of View that issue write statements through their tx,
\* on an instance opened on a file, in memory or on a PostgreSQL server.

Paths == {"data.db", ":memory:"}

\* DataSource: whether the connections of the handle are opened read-only
\* (mode=ro); an in-memory database is shared and stays writable
DataSource(path, drv, writable) ==
    IF drv = "postgres" THEN [ds |-> path, ro |-> FALSE]
    ELSE IF path = ":memory:" THEN [ds |-> "file:redka", ro |-> FALSE]
    ELSE [ds |-> "file:" \o path, ro |-> ~writable]

\* execTx: the options of BeginTx; PostgreSQL starts a View read only
TxReadOnly(drv, writable) == drv = "postgres" /\ ~writable

\* a write statement on the tx of a View is refused by the engine
ViewRefuses == DataSource(last.key, driver, FALSE).ro \/ TxReadOnly(driver, FALSE)

\* the instance is opened on path
DoOpen ==
    /\ last.op = "Open" /\ last.key = ""
    /\ \E path \in Paths :
        last' = [op |-> "Open", key |-> path, err |-> NoErr, val |-> 0]
    /\ UNCHANGED <<db, now, driver, isPostgres>>
    /\ UNCHANGED NoTx

\* execTx(writable = false), up to f(tx), no other transaction being open
ViewBeginAlone(p) ==
    /\ last.key # "" /\ \A q \in Procs : pc[q] = "idle"
    /\ pc' = [pc EXCEPT ![p] = "view"]
    /\ txdb' = [txdb EXCEPT ![p] = db]
    /\ steps' = [steps EXCEPT ![p] = <<>>]
    /\ ret' = [ret EXCEPT ![p] = [f |-> NoCall, update |-> NoCall]]
    /\ UNCHANGED <<db, now, last, driver, isPostgres, sc, seen, serial, hist>>

\* f issues a write through tx; the error of a refused statement is f's to
\* return or to ignore
ViewWrite(p) ==
    \E op \in TxOps :
        LET w == ApplyOp(txdb[p], now, op)
            r == IF ViewRefuses THEN Res(txdb[p], ErrDB, 0) ELSE w
        IN /\ pc[p] = "view" /\ Len(steps[p]) < MaxSteps
           /\ Bounded(r.db)
           /\ txdb' = [txdb EXCEPT ![p] = r.db]
           /\ steps' = [steps EXCEPT ![p] = Append(@, op)]
           /\ ret' = [ret EXCEPT ![p].f = r.err]
           /\ UNCHANGED <<db, now, last, driver, isPostgres, sc, pc, seen, serial, hist>>

\* f returns the error of its last call, or nil; execTx returns the error
\* with the deferred Rollback, or commits
ViewWriteEnd(p) ==
    \E e \in {NoErr, ret[p].f} \ {NoCall} :
        /\ pc[p] = "view"
        /\ db' = ExecTxEnd(db, Res(txdb[p], e, 0))
        /\ ret' = [ret EXCEPT ![p] = [f |-> e, update |-> e]]
        /\ pc' = [pc EXCEPT ![p] = "idle"]
        /\ hist' = hist \cup {db'}
        /\ UNCHANGED <<now, last, driver, isPostgres, sc, txdb, steps, seen, serial>>

NextView == DoOpen \/ \E p \in Procs : ViewBeginAlone(p) \/ ViewWrite(p) \/ ViewWriteEnd(p)

SpecView == Init /\ [][NextView]_vars

----------------------------------------------------------------------------
\* Properties.

\* key names the reads are asked about: the keys written and one never written
ReadKeys == Keys \cup {"nokey"}

\* the call r made on d returned ErrKeyType, had written nothing when it
\* returned, and leaves nothing behind
Refused(d, r) == r.err = ErrKeyType /\ r.db = d /\ ExecTxEnd(d, r) = d

\* C1: a creating write on a key that exists with another type fails with
\* ErrKeyType and changes nothing: PushBack and PushFront on a key that is not
\* a list, Set, SetMany, SetNotExists and Incr on a key that is not a hash
\* return ErrKeyType and leave every table as it was.
TypeConflictRejected ==
    \A k \in db.rkey :
        /\ k.type # TypeList =>
              \A e \in Elems :
                /\ Refused(db, PushBack(db, now, k.key, e))
                /\ Refused(db, PushFront(db, now, k.key, e))
        /\ k.type # TypeHash =>
              \A f \in Fields, g \in Fields, v \in HashVals, n \in Deltas :
                /\ Refused(db, HashSet(db, now, k.key, f, v))
                /\ Refused(db, SetMany(db, now, k.key, <<<<f, v>>>>))
                /\ Refused(db, SetMany(db, now, k.key, <<<<f, v>>, <<g, v>>>>))
                /\ Refused(db, SetNotExists(db, now, k.key, f, v))
                /\ Refused(db, Incr(db, now, k.key, f, n))

\* a push on a hash that holds a field has just failed on PostgreSQL with
\* the engine's own error
TypeConflictSeen ==
    /\ last.op = "PushBack" /\ last.err = ErrNotNullPostgres /\ Postgres
    /\ \E k \in db.rkey : k.type = TypeHash /\ HashRows(db, k.id) # {}

\* C2: after any sequence of successful list operations rkey.len of a list key
\* is the number of its rlist rows, and Len(key) is the number of elements of
\* Range(key, 0, -1).
ListLenIsRowCount ==
    \A k \in db.rkey :
        k.type = TypeList =>
            /\ k.len = Cardinality(ListRows(db, k.id))
            /\ Live(k, now) =>
                  ListLen(db, now, k.key).val
                      = Len(ListRange(db, now, k.key, 0, -1, Postgres).val)

\* an insert on a list that a pop had emptied has just returned 1 with nil,
\* and the list holds no row
InsertedIntoEmptied ==
    /\ last.op \in {"InsertAfter", "InsertBefore"} /\ last.err = NoErr /\ last.val = 1
    /\ \E k \in db.rkey : k.type = TypeList /\ k.len = 1 /\ ListRows(db, k.id) = {}

\* C3: after any sequence of successful hash operations rkey.len of a hash key
\* is the number of its rhash rows, one per field, so Len(key) is the number
\* of fields Fields(key) returns; Len of a key that does not exist is 0.
HashLenIsFieldCount ==
    /\ \A k \in db.rkey :
          k.type = TypeHash =>
              /\ k.len = Cardinality(HashRows(db, k.id))
              /\ k.len = Cardinality({r.field : r \in HashRows(db, k.id)})
    /\ \A key \in ReadKeys :
          /\ HashLen(db, now, key).err = NoErr
          /\ HashLen(db, now, key).val = Cardinality(HashFields(db, now, key).val)
          /\ KeyOf(db, key) = {} => HashLen(db, now, key).val = 0

\* a Delete has just removed one of the two fields of a hash
HashShrunk ==
    /\ last.op = "HashDelete" /\ last.err = NoErr /\ last.val = 1
    /\ \E k \in db.rkey : k.type = TypeHash /\ k.len = 1 /\ k.version >= 3

\* two calls of one read returned the same
SameRead(r1, r2) == r1.err = r2.err /\ r1.val = r2.val

\* every read of the list and hash repositories answers for key on d what it
\* answers on gone
ReadsAlike(d, gone, t, key) ==
    /\ \A i \in Indexes : SameRead(ListGet(d, t, key, i), ListGet(gone, t, key, i))
    /\ SameRead(ListLen(d, t, key), ListLen(gone, t, key))
    /\ \A s \in Indexes, e \in Indexes :
          SameRead(ListRange(d, t, key, s, e, Postgres),
                   ListRange(gone, t, key, s, e, Postgres))
    /\ \A f \in Fields :
          /\ SameRead(HashGet(d, t, key, f), HashGet(gone, t, key, f))
          /\ SameRead(HashExists(d, t, key, f), HashExists(gone, t, key, f))
    /\ \A fs \in SUBSET Fields :
          SameRead(GetMany(d, t, key, fs), GetMany(gone, t, key, fs))
    /\ SameRead(HashFields(d, t, key), HashFields(gone, t, key))
    /\ SameRead(HashValues(d, t, key), HashValues(gone, t, key))
    /\ SameRead(HashItems(d, t, key), HashItems(gone, t, key))
    /\ SameRead(HashLen(d, t, key), HashLen(gone, t, key))
    /\ \A c \in 0..1, p \in {"*", "f"}, n \in 0..1, alt \in BOOLEAN :
          SameRead(HashScan(d, t, key, c, p, n, Postgres, alt),
                   HashScan(gone, t, key, c, p, n, Postgres, alt))

\* every read of the list key k returns what the rows of k hold
ListVisible(d, t, k) ==
    LET rows == OrderByPos(ListRows(d, k.id)) IN
    /\ ListLen(d, t, k.key).err = NoErr /\ ListLen(d, t, k.key).val = k.len
    /\ ListRange(d, t, k.key, 0, -1, Postgres).err = NoErr
    /\ ListRange(d, t, k.key, 0, -1, Postgres).val = ElemsOf(rows)
    /\ \A i \in 1..Len(rows) :
          /\ ListGet(d, t, k.key, i - 1).err = NoErr
          /\ ListGet(d, t, k.key, i - 1).val = rows[i].elem

\* every read of the hash key k returns what the rows of k hold
HashVisible(d, t, k) ==
    LET rows == HashRows(d, k.id)
        items == {<<r.field, r.value>> : r \in rows}
        scan(alt) == HashScan(d, t, k.key, 0, "*", 0, Postgres, alt)
    IN
    /\ \A r \in rows :
          /\ HashGet(d, t, k.key, r.field).err = NoErr
          /\ HashGet(d, t, k.key, r.field).val = r.value
          /\ HashExists(d, t, k.key, r.field).val
          /\ GetMany(d, t, k.key, {r.field}).err = NoErr
          /\ GetMany(d, t, k.key, {r.field}).val = {<<r.field, r.value>>}
    /\ GetMany(d, t, k.key, Fields).err = NoErr
    /\ GetMany(d, t, k.key, Fields).val = items
    /\ HashFields(d, t, k.key).val = {r.field : r \in rows}
    /\ HashItems(d, t, k.key).val = items
    /\ DOMAIN HashValues(d, t, k.key).val = {r.value : r \in rows}
    /\ HashLen(d, t, k.key).val = k.len
    /\ \A alt \in BOOLEAN :
          scan(alt).err = NoErr /\ SeqRange(scan(alt).val.Items) = items

\* C5: a list or hash key with etime <= now, the boundary etime = now
\* included, reads as a key that does not exist: list Get, Len and Range and
\* hash Get, GetMany, Exists, Fields, Values, Items, Len and Scan return what
\* they return with the key and its rows gone; while etime > now or etime is
\* NULL every one of these reads succeeds and returns what the key holds.
ExpiryHidesKey ==
    \A k \in db.rkey :
        /\ (k.type \in {TypeList, TypeHash} /\ k.etime # NULL /\ k.etime <= now) =>
              ReadsAlike(db, DeleteKeyRows(db, {k}), now, k.key)
        /\ (k.type = TypeList /\ (k.etime = NULL \/ k.etime > now)) =>
              ListVisible(db, now, k)
        /\ (k.type = TypeHash /\ (k.etime = NULL \/ k.etime > now)) =>
              HashVisible(db, now, k)

\* a hash with a field has just been given a time to live that has not run
\* out, and GetMany of that one field returns an error
LiveFieldUnreadable ==
    /\ last.op = "Expire" /\ last.err = NoErr
    /\ \E k \in db.rkey :
          /\ k.type = TypeHash /\ k.etime # NULL /\ k.etime > now
          /\ \E r \in HashRows(db, k.id) :
                GetMany(db, now, k.key, {r.field}).err # NoErr

\* the write r made key anew: it succeeded and the key has no etime and
\* version 1
Recreated(r, key) ==
    /\ r.err = NoErr
    /\ \E k \in r.db.rkey : k.key = key /\ k.etime = NULL /\ k.version = 1

\* C6: a creating write on a key with etime <= now recreates it: after
\* PushBack or PushFront on an expired list, or Set, SetMany or Incr on an
\* expired hash, the key is visible to reads, has no etime, has version 1 and
\* holds only the element or field just written.
ExpiredKeyRecreated ==
    \A k \in db.rkey :
        (k.etime # NULL /\ k.etime <= now) =>
            /\ k.type = TypeList =>
                  \A e \in Elems, front \in BOOLEAN :
                    LET r == ListPush(db, now, k.key, e, front) IN
                    /\ Recreated(r, k.key)
                    /\ ListRange(r.db, now, k.key, 0, -1, Postgres).val = <<e>>
            /\ k.type = TypeHash =>
                  \A f \in Fields, v \in HashVals, n \in Deltas :
                    /\ LET r == HashSet(db, now, k.key, f, v) IN
                         Recreated(r, k.key) /\ HashItems(r.db, now, k.key).val = {<<f, v>>}
                    /\ LET r == SetMany(db, now, k.key, <<<<f, v>>>>) IN
                         Recreated(r, k.key) /\ HashItems(r.db, now, k.key).val = {<<f, v>>}
                    /\ LET r == Incr(db, now, k.key, f, n) IN
                         Recreated(r, k.key)
                         /\ HashItems(r.db, now, k.key).val = {<<f, Itoa(n)>>}

\* a push on an expired list has just returned nil, and the list is expired
\* still, with the element it held before
WroteToExpired ==
    /\ last.op = "PushBack" /\ last.err = NoErr
    /\ \E k \in db.rkey :
          /\ k.type = TypeList /\ k.etime # NULL /\ k.etime <= now
          /\ k.version = 2 /\ Cardinality(ListRows(db, k.id)) = 2
          /\ ListLen(db, now, k.key).val = 0

\* the calls that, returning nil with the value val, have changed the key
Mutated(op, val) ==
    \/ op \in {"PushBack", "PushFront", "PopBack", "PopFront", "PopBackPushFront",
               "InsertAfter", "InsertBefore", "ListSet",
               "HashSet", "Incr", "IncrFloat"}
    \/ op \in {"ListTrim", "ListDelete", "DeleteBack", "DeleteFront", "HashDelete"}
          /\ val > 0
    \/ op = "SetMany" /\ val[1] > 0
    \/ op = "SetNotExists" /\ val = TRUE

\* one step: no key row that stays has its version lowered; one whose len or
\* rows change has it raised; and a mutating call that returned nil has
\* raised the version of the key row it found
VersionStep ==
    /\ \A k \in db.rkey : \A k2 \in db'.rkey :
          k2.id = k.id =>
              /\ k2.version >= k.version
              /\ (\/ k2.len # k.len
                  \/ ListRows(db', k.id) # ListRows(db, k.id)
                  \/ HashRows(db', k.id) # HashRows(db, k.id))
                 => k2.version > k.version
    /\ (now' = now /\ last'.err = NoErr /\ Mutated(last'.op, last'.val)) =>
          /\ \E k2 \in db'.rkey : k2.key = last'.key
          /\ \A k \in db.rkey : \A k2 \in db'.rkey :
                (k2.id = k.id /\ k.key = last'.key) => k2.version > k.version

\* C7: rkey.version of a key strictly increases with every successful
\* mutation of the key (list push, pop, insert, set by index, trim and delete
\* that remove an element; hash set of a field, delete that removes a field),
\* and no operation lowers the version of a key that exists.
VersionIncreases == [][VersionStep]_vars

\* a Trim has just removed one element of two, and the version is 3
TrimRaisedVersion ==
    /\ last.op = "ListTrim" /\ last.err = NoErr /\ last.val = 1
    /\ \E k \in db.rkey : k.type = TypeList /\ k.len = 1 /\ k.version = 3

\* C8: every rlist and every rhash row belongs to exactly one rkey row, of
\* type 2 for rlist and 4 for rhash; no key has rows in two typed tables; and
\* with an rkey row deleted no typed row that referenced it remains.
TypedRowsOwned ==
    /\ \A r \in db.rlist :
          /\ Cardinality({k \in db.rkey : k.id = r.kid}) = 1
          /\ \A k \in db.rkey : k.id = r.kid => k.type = TypeList
    /\ \A r \in db.rhash :
          /\ Cardinality({k \in db.rkey : k.id = r.kid}) = 1
          /\ \A k \in db.rkey : k.id = r.kid => k.type = TypeHash
    /\ \A k \in db.rkey :
          /\ Cardinality({tab \in {"rstring", "rlist", "rhash"} :
                             \E r \in db[tab] : r.kid = k.id}) <= 1
          /\ \A r \in {KeyDelete(db, now, {k.key}), DeleteExpired(db, now + MaxTime)} :
                k \notin r.db.rkey =>
                    \A tab \in {"rstring", "rlist", "rhash"} :
                        \A row \in r.db[tab] : row.kid # k.id

\* Delete has just removed the only key, a key made after an earlier one was
\* removed, and no typed row is left
KeyDeletedNoOrphans ==
    /\ last.op = "KeyDelete" /\ last.err = NoErr /\ last.val = 1
    /\ db.rkey = {} /\ db.seq = 2
    /\ db.rlist = {} /\ db.rhash = {} /\ db.rstring = {}

\* the goroutines with a writable transaction open
Writers == {p \in Procs : pc[p] \in {"update", "returned"}}

\* one step of Update(f) by p
UpdateStep(p) ==
    \* the transaction starts from the committed store
    /\ (pc[p] = "idle" /\ pc'[p] = "update") => txdb'[p] = db
    \* while it is open, nothing of it is committed
    /\ (p \in Writers /\ pc'[p] # "idle") => db' = db
    \* Update returns what f returned; with nil the store is what the
    \* transaction wrote, with an error it is what it was
    /\ (pc[p] = "returned" /\ pc'[p] = "idle") =>
          /\ ret'[p].update = ret[p].f
          /\ ret[p].f = NoErr => db' = txdb[p]
          /\ ret[p].f # NoErr => db' = db

\* C4: Update(f) is all or nothing: if f returns nil every write made through
\* its tx is committed and seen by what starts afterwards; if f returns an
\* error e, Update returns e and the store is as it was before the call.
UpdateAllOrNothing == [][\A p \in Procs : UpdateStep(p)]_vars

\* an Update whose closure wrote and then returned an error of its own has
\* returned that error, and the store holds none of its writes
RolledBack ==
    \E p \in Procs :
        /\ pc[p] = "idle" /\ ret[p].update = ErrForced
        /\ steps[p] # <<>> /\ txdb[p] # db
        /\ ReadAll(txdb[p], now, Postgres) # ReadAll(db, now, Postgres)

\* C9: at most one writable transaction is open at any time, and the store
\* is the one that running the committed closures one after another, in
\* commit order, produces.
OneWriterSerial ==
    /\ Cardinality(Writers) <= 1
    /\ db = serial

\* both goroutines have committed an Update that wrote, one after the other
BothCommitted ==
    /\ \A p \in Procs :
          /\ pc[p] = "idle" /\ ret[p].update = NoErr
          /\ steps[p] # <<>> /\ steps[p][1] \in TxOps
    /\ Cardinality(hist) >= 3
    /\ \E k \in db.rkey : k.version >= 2

\* C10: a View never observes the writes of an Update that has not
\* committed: what it reads is what some committed state of the store holds.
ViewReadsCommitted ==
    \A p \in Procs : \E h \in hist : seen[p] = ReadAll(h, now, Postgres)

\* a View has read while an Update holds writes it has not committed, and
\* what it read is not what that Update wrote
ReadBesideWriter ==
    \E p \in Procs, q \in Procs :
        /\ pc[p] = "reading" /\ pc[q] = "update" /\ steps[q] # <<>>
        /\ seen[p] = ReadAll(db, now, Postgres)
        /\ seen[p] # ReadAll(txdb[q], now, Postgres)

\* C11: if the context given to UpdateContext or ViewContext is cancelled
\* before the transaction has committed, the transaction is rolled back: the
\* store stays as it is and the caller receives an error, also when the
\* closure returns nil.
CancelStep(p) ==
    (pc[p] = "cancelledRet" /\ pc'[p] = "idle") =>
          /\ db' = db
          /\ ret'[p].update # NoErr
          /\ ret[p].f = NoErr => ret'[p].update = ErrCanceled

Countable(d, t, key) ==
    \A k \in d.rkey :
        k.key = key => /\ k.type = TypeList /\ Live(k, t)
                       /\ k.len = Cardinality(ListRows(d, k.id))

All(d, t, key) == ListRange(d, t, key, 0, -1, Postgres).val

\* C12: PushBack(v) puts v after all existing elements and PushFront(v) before
\* all of them, as Range(key, 0, -1) shows, and every push returns the length
\* of the list after it.
PushKeepsOrder ==
    \A key \in Keys, e \in Elems :
        LET b == PushBack(db, now, key, e)
            f == PushFront(db, now, key, e)
        IN Countable(db, now, key) =>
              /\ b.err = NoErr /\ f.err = NoErr
              /\ All(b.db, now, key) = Append(All(db, now, key), e)
              /\ All(f.db, now, key) = <<e>> \o All(db, now, key)
              /\ b.val = Len(All(b.db, now, key))
              /\ f.val = Len(All(f.db, now, key))

\* a PushFront has just put b before a, a and returned 3
PushedFront ==
    /\ last.op = "PushFront" /\ last.err = NoErr /\ last.val = 3
    /\ Countable(db, now, last.key)
    /\ All(db, now, last.key) = <<"b", "a", "a">>

\* PopFront takes the element at index 0 and PopBack the one at index len-1,
\* the others keep their order; on a missing, empty or non-list key both
\* return ErrNotFound and change nothing
PopTakesEnd ==
    \A key \in ReadKeys :
        LET all == All(db, now, key)
            f == PopFront(db, now, key)
            b == PopBack(db, now, key)
        IN IF all # <<>>
           THEN /\ f.err = NoErr /\ f.val = all[1]
                /\ All(f.db, now, key) = Tail(all)
                /\ b.err = NoErr /\ b.val = all[Len(all)]
                /\ All(b.db, now, key) = SubSeq(all, 1, Len(all) - 1)
           ELSE /\ f.err = ErrNotFound /\ f.db = db
                /\ b.err = ErrNotFound /\ b.db = db

\* a push that succeeds, directly followed by the pop at the same end, returns
\* the pushed element and restores the contents
PopUndoesPush ==
    \A key \in Keys, e \in Elems, front \in BOOLEAN :
        LET p == ListPush(db, now, key, e, front)
            q == ListPop(p.db, now, key, ~front)
        IN p.err = NoErr =>
              /\ q.err = NoErr /\ q.val = e
              /\ All(q.db, now, key) = All(db, now, key)

\* C13: PopFront removes and returns the element at index 0 and PopBack the
\* one at index len-1, both return ErrNotFound on a missing, empty or non-list
\* key; PushFront directly followed by PopFront returns the pushed element and
\* restores the previous contents, and likewise PushBack and PopBack.
PopSemantics == PopTakesEnd /\ PopUndoesPush

\* a PushFront on an expired list has just returned nil, and the PopFront that
\* follows it finds nothing
PushedNotPoppable ==
    /\ last.op = "PushFront" /\ last.err = NoErr
    /\ \E k \in db.rkey : k.key = last.key /\ k.type = TypeList /\ ~Live(k, now)
    /\ PopFront(db, now, last.key).err = ErrNotFound

\* the elements of the live list key in list order, read from the rows
Elements(d, t, key) ==
    LET ck == CurKey(d, key, TypeList, t) IN
    IF ck = {} THEN <<>> ELSE ElemsOf(OrderByPos(ListRows(d, RowOf(ck).id)))

RangeArgs == (0 - MaxLen - 1)..(MaxLen + 1)

\* the elements of all whose index i, 0 <= i < len, has s <= i <= e, with a
\* negative start or stop resolved as len + v
Slice(all, start, stop) ==
    LET s == Bound(Len(all), start)
        e == Bound(Len(all), stop)
        lo == IF s < 0 THEN 0 ELSE s
        hi == IF e >= Len(all) THEN Len(all) - 1 ELSE e
    IN SubSeq(all, lo + 1, hi + 1)

\* C14: Range(key, start, stop) returns, in list order, exactly the elements
\* whose index is between the resolved start and the resolved stop; the result
\* is empty whenever the resolved start is greater than the resolved stop, for
\* every sign combination, and for a missing or non-list key.
RangeIsSlice ==
    \A key \in ReadKeys, start \in RangeArgs, stop \in RangeArgs :
        LET r == ListRange(db, now, key, start, stop, Postgres) IN
        /\ r.err = NoErr
        /\ r.val = Slice(Elements(db, now, key), start, stop)

\* a list of three elements of which Range(2, -3), resolved start 2 and
\* resolved stop 0, does not return the empty list
RangeOfCrossedBounds ==
    \E key \in Keys :
        LET r == ListRange(db, now, key, 2, -3, Postgres) IN
        /\ Len(Elements(db, now, key)) = 3
        /\ Countable(db, now, key)
        /\ (r.err # NoErr \/ r.val # <<>>)

\* C15: Trim(key, start, stop) keeps exactly the elements that Range(key,
\* start, stop) returns right before the call, in their order, deletes every
\* other element and returns the number deleted, for all start and stop; with
\* start > stop the list ends up empty.
TrimKeepsRange ==
    \A key \in ReadKeys, start \in RangeArgs, stop \in RangeArgs :
        LET all == Elements(db, now, key)
            keep == ListRange(db, now, key, start, stop, Postgres)
            r == ListTrim(db, now, key, start, stop, isPostgres, Postgres)
        IN /\ r.err = NoErr
           /\ Elements(r.db, now, key) = keep.val
           /\ r.val = Len(all) - Len(keep.val)
           /\ start > stop => Elements(r.db, now, key) = <<>>

\* a Trim with crossed bounds, Trim(-1, -3), has just failed on PostgreSQL
\* and left the elements in place
TrimOfCrossedBounds ==
    /\ last.op = "ListTrim" /\ last.err = ErrDB /\ Postgres
    /\ Elements(db, now, last.key) # <<>>

\* C16: Set(key, idx, elem) with -len <= idx < len replaces exactly the
\* element at that index, a negative idx counting from the end, and leaves the
\* length and every other element as they are; with idx out of range, a
\* missing key or a key that is not a list it returns ErrNotFound and changes
\* nothing.
SetReplacesOne ==
    \A key \in ReadKeys, idx \in RangeArgs, e \in Elems :
        LET all == Elements(db, now, key)
            i == IF idx < 0 THEN Len(all) + idx ELSE idx
            r == ListSet(db, now, key, idx, e)
        IN IF 0 - Len(all) <= idx /\ idx < Len(all)
           THEN /\ r.err = NoErr
                /\ Elements(r.db, now, key) = [all EXCEPT ![i + 1] = e]
                /\ ListLen(r.db, now, key).val = ListLen(db, now, key).val
           ELSE r.err = ErrNotFound /\ r.db = db

\* a Set has just replaced one of two elements
SetOneOfTwo ==
    /\ last.op = "ListSet" /\ last.err = NoErr
    /\ Elements(db, now, last.key) = <<"b", "a">>
    /\ ListSet(db, now, last.key, -2, "a").err = NoErr
    /\ ListSet(db, now, last.key, -3, "a").err = ErrNotFound

\* Get on d answers for every index as the claim has it: the element at idx
\* resp. len + idx, which is what Range(key, idx, idx) returns, and
\* ErrNotFound, a null reply of LINDEX, outside -len..len-1
GetAt(d, t, key) ==
    \A idx \in RangeArgs :
        LET all == Elements(d, t, key)
            i == IF idx < 0 THEN Len(all) + idx ELSE idx
            g == ListGet(d, t, key, idx)
            c == LIndexRun(d, t, key, idx)
        IN IF 0 - Len(all) <= idx /\ idx < Len(all)
           THEN /\ g.err = NoErr /\ g.val = all[i + 1]
                /\ ListRange(d, t, key, idx, idx, Postgres).val = <<g.val>>
                /\ c.reply = "bulk" /\ c.val = g.val
           ELSE /\ g.err = ErrNotFound
                /\ c.reply = "null" /\ c.err = NoErr

\* C17: Get(key, idx) returns the element at index idx for 0 <= idx < len and
\* the one at len + idx for -len <= idx < 0, the same element as Range(key,
\* idx, idx); out of bounds, on a missing key and on a key that is not a list
\* it returns ErrNotFound, which LINDEX reports as a null reply without error.
\* Stated of every state and of the state one more PushBack leaves.
GetIsIndex ==
    \A key \in ReadKeys :
        /\ GetAt(db, now, key)
        /\ \A e \in Elems :
              LET p == PushBack(db, now, key, e) IN
              p.err = NoErr => GetAt(ExecTxEnd(db, p), now, key)

\* an insert on an emptied list has left rkey.len at 1 with no row; after the
\* next PushBack Get(-1) returns the pushed element and Range(-1, -1) nothing
GetBesideRange ==
    \E e \in Elems :
        LET p == PushBack(db, now, last.key, e) IN
        /\ last.op \in {"InsertAfter", "InsertBefore"} /\ last.err = NoErr
        /\ p.err = NoErr
        /\ ListGet(p.db, now, last.key, -1).val = e
        /\ ListRange(p.db, now, last.key, -1, -1, Postgres).val = <<>>

\* C18: InsertBefore and InsertAfter return (0, ErrNotFound) when the key
\* does not exist or is not a list, (-1, ErrNotFound) when the key is a list
\* without the pivot, an existing list with no elements included, and the new
\* length without error only when the pivot is present.
InsertResults ==
    \A key \in ReadKeys, pivot \in Elems, e \in Elems, after \in BOOLEAN :
        LET all == Elements(db, now, key)
            r == ListInsert(db, now, key, pivot, e, after)
        IN IF CurKey(db, key, TypeList, now) = {}
           THEN r.err = ErrNotFound /\ r.val = 0 /\ r.db = db
           ELSE IF \E i \in 1..Len(all) : all[i] = pivot
           THEN r.err = NoErr /\ r.val = Len(Elements(r.db, now, key))
           ELSE r.err = ErrNotFound /\ r.val = -1

\* an insert on a list with no elements left has just returned a length and
\* no error
InsertedWithoutPivot ==
    /\ last.op \in {"InsertAfter", "InsertBefore"}
    /\ last.err = NoErr /\ last.val > 0
    /\ CurKey(db, last.key, TypeList, now) # {}
    /\ Elements(db, now, last.key) = <<>>

\* the store with Other absent, a list, a hash or a string
WithOther(d, t) ==
    {d} \cup {PushBack(d, t, Other, e).db : e \in Elems}
        \cup {HashSet(d, t, Other, f, "x").db : f \in Fields}
        \cup {StrSet(d, t, Other, "x").db}

\* PopBackPushFront(src, dst), called on its own, on the store d
MovesOrNothing(d, t, src, dst) ==
    LET r == PopBackPushFront(d, t, src, dst)
        after == ExecTxEnd(d, r)
        from == Elements(d, t, src)
        to == Elements(d, t, dst)
        e == from[Len(from)]
        rest == SubSeq(from, 1, Len(from) - 1)
    IN IF from = <<>>
       THEN r.err = ErrNotFound /\ after = d
       ELSE IF \E k \in d.rkey : k.key = dst /\ k.type # TypeList
       THEN r.err = ErrKeyType /\ after = d
       ELSE /\ r.err = NoErr /\ r.val = e
            /\ Elements(after, t, src) = (IF src = dst THEN <<e>> \o rest ELSE rest)
            /\ Elements(after, t, dst) = (IF src = dst THEN <<e>> \o rest ELSE <<e>> \o to)

\* C19: PopBackPushFront(src, dst) is atomic: either the last element of src
\* is removed and becomes the first element of dst (src = dst: the list is
\* rotated), or, with src missing or empty (ErrNotFound) or dst of another
\* type (ErrKeyType), neither src nor dst is changed.
PopPushAtomic ==
    \A d \in WithOther(db, now), src \in Keys \cup {Other}, dst \in Keys \cup {Other} :
        MovesOrNothing(d, now, src, dst)

\* a PopBackPushFront has just taken the one element of a list and put it
\* back at the front
MovedToFront ==
    /\ last.op = "PopBackPushFront" /\ last.err = NoErr /\ last.val = "b"
    /\ Elements(db, now, last.key) = <<"b">>

\* C20: after a successful Rename(a, b) a no longer exists, b holds the type
\* and payload that a held, and whatever b held before is gone; with a absent
\* Rename returns ErrNotFound and nothing changes; the deletion of the old b
\* and the renaming of a take effect together or not at all.
RenameMoves ==
    \A a \in Keys \cup {Other}, b \in Keys \cup {Other} :
        LET r == Rename(db, now, a, b)
            after == ExecTxEnd(db, r)
            ka == {k \in db.rkey : k.key = a /\ Live(k, now)}
            tabs == {"rstring", "rlist", "rhash"}
        IN a # b =>
           IF ka = {} THEN r.err = ErrNotFound /\ after = db
           ELSE LET k == RowOf(ka) IN
                /\ r.err = NoErr
                /\ \A x \in after.rkey : x.key # a
                /\ \A x \in after.rkey :
                      x.key = b => x.id = k.id /\ x.type = k.type /\ x.len = k.len
                /\ \E x \in after.rkey : x.key = b
                /\ \A tab \in tabs :
                      {row \in after[tab] : row.kid = k.id}
                          = {row \in db[tab] : row.kid = k.id}
                /\ \A x \in db.rkey :
                      x.key = b => \A tab \in tabs : \A row \in after[tab] : row.kid # x.id
                /\ Elements(after, now, b) = Elements(db, now, a)
                /\ HashItems(after, now, b).val = HashItems(db, now, a).val

\* a Rename has just put a list in the place of another key: two keys were
\* created, one row is left, and it has the new name and the elements
RenamedOver ==
    /\ last.op = "Rename" /\ last.err = NoErr /\ last.key = "k1"
    /\ db.seq = 2 /\ Cardinality(db.rkey) = 1
    /\ Elements(db, now, Other) # <<>>

----------------------------------------------------------------------------
\* Cursor iteration over the fields of one hash.

ScanPatterns == {"*", "f", "g"}

\* The whole iteration: Scan from the cursor, pass each returned cursor to
\* the next call, stop at an empty page or at an error.
RECURSIVE ScanAll(_, _, _, _, _, _, _, _)
ScanAll(d, t, key, cursor, pattern, count, pg, alt) ==
    LET r == HashScan(d, t, key, cursor, pattern, count, pg, alt)
    IN IF r.err # NoErr THEN [err |-> r.err, pages |-> <<>>]
       ELSE IF r.val.Items = <<>> THEN [err |-> NoErr, pages |-> <<>>]
       ELSE LET rest == ScanAll(d, t, key, r.val.Cursor, pattern, count, pg, alt)
            IN [err |-> rest.err, pages |-> <<r.val.Items>> \o rest.pages]

RECURSIVE Flatten(_)
Flatten(pages) ==
    IF pages = <<>> THEN <<>> ELSE Head(pages) \o Flatten(Tail(pages))

ScanComplete(d, t, key, pattern, count, pg, alt) ==
    LET it == ScanAll(d, t, key, 0, pattern, count, pg, alt)
        got == Flatten(it.pages)
        want == {<<r.field, r.value>> : r \in {q \in LiveHash(d, t, key) : Glob(pattern, q.field)}}
    IN /\ it.err = NoErr
       /\ \A i \in 1..Len(it.pages) :
            Len(it.pages[i]) <= (IF count = 0 THEN scanPageSize ELSE count)
       /\ \A i, j \in 1..Len(got) : got[i] = got[j] => i = j
       /\ SeqRange(got) = want

\* C21: an iteration of hash Scan from cursor 0, passing each returned cursor
\* on, over unmodified data returns every live field matching the pattern
\* exactly once, nothing of an expired key, at most count items per page (10
\* when count = 0), and ends with an empty page.
ScanIterates ==
    \A key \in Keys, pattern \in ScanPatterns, count \in 0..2, alt \in BOOLEAN :
        ScanComplete(db, now, key, pattern, count, Postgres, alt)

\* A hash on SQLite whose second field sorts before its first, just set.
ScanOfUnorderedFields ==
    /\ last.op \in {"HashSet", "SetMany", "SetNotExists"} /\ last.err = NoErr
    /\ ~Postgres
    /\ \E a, b \in LiveHash(db, now, last.key) :
         a.rowid < b.rowid /\ a.field = "g" /\ b.field = "f"

----------------------------------------------------------------------------
\* Hash writes.

\* The maps SetMany can be given, each in every order its iteration can take.
ItemMaps ==
    UNION {{[i \in 1..Len(s) |-> <<s[i], vals[s[i]]>>] :
              s \in {q \in [1..Cardinality(fs) -> fs] :
                       \A i, j \in DOMAIN q : i # j => q[i] # q[j]}}
           : fs \in SUBSET Fields, vals \in [Fields -> SetVals]}

HasField(d, t, key, field) == \E r \in LiveHash(d, t, key) : r.field = field

\* a live key of another type holds the name
OtherTypeLive(d, t, key) ==
    \E k \in d.rkey : k.key = key /\ k.type # TypeHash /\ Live(k, t)

SetResult(d, t, key, field, value) ==
    LET r == HashSet(d, t, key, field, value) IN
    IF ~IsValueType(value) THEN r.err = ErrValueType /\ r.db = d
    ELSE IF OtherTypeLive(d, t, key) THEN r.err # NoErr
    ELSE /\ r.err = NoErr
         /\ r.val = ~HasField(d, t, key, field)
         /\ HashGet(r.db, t, key, field) = Res(r.db, NoErr, value)

SetManyResult(d, t, key, items) ==
    LET r == SetMany(d, t, key, items)
        fields == {it[1] : it \in SeqRange(items)}
    IN IF \E it \in SeqRange(items) : ~IsValueType(it[2])
       THEN r.err = ErrValueType /\ r.db = d
       ELSE IF OtherTypeLive(d, t, key) THEN items # <<>> => r.err # NoErr
       ELSE /\ r.err = NoErr
            /\ r.val = Cardinality({f \in fields : ~HasField(d, t, key, f)})
            /\ \A it \in SeqRange(items) :
                 HashGet(r.db, t, key, it[1]) = Res(r.db, NoErr, it[2])

\* C22: hash Set returns true iff the field did not exist in the live hash,
\* SetMany returns the number of its fields that did not exist; every written
\* field then reads back the written value; a value of an unsupported type
\* fails with ErrValueType and nothing is written.
SetCountsCreated ==
    /\ \A key \in Keys, f \in Fields, v \in SetVals : SetResult(db, now, key, f, v)
    /\ \A key \in Keys, items \in ItemMaps : SetManyResult(db, now, key, items)

\* SetMany of two fields, one of them new, has just returned 1.
SetManyCreatedOne ==
    /\ last.op = "SetMany" /\ last.err = NoErr /\ last.val = <<2, 1>>
    /\ Cardinality(LiveHash(db, now, last.key)) = 2

\* C23: hash SetNotExists writes the field and returns true iff the field
\* does not exist, creating the key when needed; when the field exists it
\* returns false and leaves the value, the hash length and the key's version
\* (the whole store) as they were.
SetNotExistsOnlyCreates ==
    \A key \in Keys, f \in Fields, v \in HashVals :
        LET r == SetNotExists(db, now, key, f, v) IN
        IF HasField(db, now, key, f)
        THEN r.err = NoErr /\ r.val = FALSE /\ r.db = db
        ELSE IF \E k \in db.rkey : k.key = key /\ k.type # TypeHash
        THEN r.err # NoErr /\ r.val = FALSE
        ELSE /\ r.err = NoErr /\ r.val = TRUE
             /\ \E k \in r.db.rkey :
                  /\ k.key = key /\ k.type = TypeHash
                  /\ \E row \in r.db.rhash :
                       row.kid = k.id /\ row.field = f /\ row.value = v

\* SetNotExists has just declined to overwrite a field of a live hash.
SetNotExistsDeclined ==
    /\ last.op = "SetNotExists" /\ last.err = NoErr /\ last.val = FALSE
    /\ HasField(db, now, last.key, "f") /\ HasField(db, now, last.key, "g")

\* C24: hash Incr returns old + delta, old being the field's integer value
\* and 0 when the field or the key does not exist, and stores that result as
\* the field's value, creating key and field when needed; when the value is
\* not a valid integer it returns ErrValueType and changes nothing.
IncrAdds ==
    \A key \in Keys, f \in Fields, delta \in Deltas \cup {MaxGoInt} :
        LET r == Incr(db, now, key, f, delta)
            cur == HashGet(db, now, key, f).val
        IN IF \E k \in db.rkey : k.key = key /\ k.type # TypeHash
           THEN r.err # NoErr
           ELSE IF ~Atoi(cur).ok THEN r.err = ErrValueType /\ r.db = db
           ELSE /\ r.err = NoErr
                /\ r.val = Atoi(cur).n + delta
                /\ \E k \in r.db.rkey :
                     /\ k.key = key /\ k.type = TypeHash
                     /\ \E row \in r.db.rhash :
                          /\ row.kid = k.id /\ row.field = f
                          /\ Atoi(row.value) = [ok |-> TRUE, n |-> r.val]

\* Incr has just brought a field to the greatest int.
IncrReachedMaxInt ==
    /\ last.op = "Incr" /\ last.err = NoErr /\ last.val = MaxGoInt
    /\ \E r \in LiveHash(db, now, last.key) : r.value = Itoa(MaxGoInt)

----------------------------------------------------------------------------
\* Sets and sorted sets.

\* the key sequences given to the multi-key operations
KeySeqs == {<<"k1">>, <<"k1", Other>>, <<Other, "k1">>, <<Other>>}

\* a live key of another type than type holds the name
HeldByOther(d, t, key, type) ==
    \E k \in d.rkey : k.key = key /\ k.type # type /\ Live(k, t)

\* a store on a dest of another type: refused with ErrKeyType by a non-empty
\* result, 0 for an empty one, the store as it was
StoreRefused(r, empty) ==
    /\ r.db = db
    /\ IF empty THEN r.err = NoErr /\ r.val = 0 ELSE r.err = ErrKeyType

\* C25: a set or sorted-set store operation never modifies a dest that holds
\* another type: a non-empty result fails with ErrKeyType, an empty one
\* returns 0 without an error, and dest keeps its value.
StoreKeepsOtherDest ==
    \A keys \in KeySeqs :
        /\ HeldByOther(db, now, Dest, TypeSet) =>
             StoreRefused(InterStore(db, now, Dest, keys),
                          SetInter(db, now, keys).val = {})
        /\ HeldByOther(db, now, Dest, TypeZSet) =>
             \A a \in Aggregates :
                StoreRefused(ZInterStore(db, now, Dest, keys, a),
                             ZInter(db, now, keys, a) = {})

\* A store with a non-empty result has just been refused by a string at dest.
StoreOnStringDest ==
    /\ last.op \in {"InterStore", "ZInterStore"} /\ last.err # NoErr
    /\ \E k \in db.rkey : k.key = Dest /\ k.type = TypeString
    /\ LiveSet(db, now, "k1") # {} \/ LiveZSet(db, now, "k1") # {}

\* the members stored for the set named key, read from the tables
Members(d, key) ==
    {r.elem : r \in {q \in d.rset :
        \E k \in d.rkey : k.key = key /\ k.type = TypeSet /\ k.id = q.kid}}

\* C26: SINTERSTORE replaces the set at dest with exactly the intersection of
\* the source sets and returns its size, the previous members of dest being
\* discarded; an empty intersection, as with a source that is missing or no
\* set, returns 0 and leaves dest without members.
InterStoreReplaces ==
    ~HeldByOther(db, now, Dest, TypeSet) =>
        \A keys \in KeySeqs \cup {<<Dest, "k1">>} :
            LET r == InterStore(db, now, Dest, keys)
                inter == {e \in Elems : \A i \in 1..Len(keys) : e \in Members(db, keys[i])}
            IN /\ r.err = NoErr
               /\ r.val = Cardinality(inter)
               /\ Members(r.db, Dest) = inter
               /\ LiveSet(r.db, now, Dest) = inter

\* SINTERSTORE of two sets has just stored their one common member.
StoredCommonMember ==
    /\ last.op = "InterStore" /\ last.err = NoErr /\ last.val = 1
    /\ Cardinality(LiveSet(db, now, "k1") \cup LiveSet(db, now, Other)) = 2
    /\ LiveSet(db, now, Dest) = LiveSet(db, now, "k1") \cap LiveSet(db, now, Other)

\* the sequences of one to three keys over k1, k2 and dest
DiffKeySeqs ==
    {<<a>> : a \in SetKeys} \cup {<<a, b>> : a \in SetKeys, b \in SetKeys}
    \cup {<<"k1", Other, Dest>>, <<Dest, Other, "k1">>}

\* C27: SDIFF returns exactly the members of the first set that are in none
\* of the other sets; a missing key and a key of another type count as the
\* empty set, so a missing first key gives nothing and a wrong-typed later
\* key removes nothing.
DiffIsFirstMinusRest ==
    \A keys \in DiffKeySeqs :
        LET r == SetDiff(db, now, keys) IN
        /\ r.err = NoErr /\ r.db = db
        /\ r.val = {e \in Members(db, keys[1]) :
                      \A i \in 2..Len(keys) : e \notin Members(db, keys[i])}
        /\ Members(db, keys[1]) = {} => r.val = {}
        /\ (\A i \in 2..Len(keys) : Members(db, keys[i]) = {}) =>
              r.val = Members(db, keys[1])

\* A set with two members beside a set that shares one of them and a string:
\* the difference is a proper, non-empty part of the first set.
DiffOfOverlappingSets ==
    /\ last.op = "SetAdd" /\ last.err = NoErr
    /\ Cardinality(LiveSet(db, now, "k1")) = 2
    /\ Cardinality(LiveSet(db, now, Other)) = 1
    /\ \E k \in db.rkey : k.key = Dest /\ k.type = TypeString
    /\ Cardinality(SetDiff(db, now, <<"k1", Other, Dest>>).val) = 1

\* items <<elem, score>> in ascending (score, elem) order, without repeats
Ascending(items) ==
    \A i, j \in 1..Len(items) :
        i < j => \/ items[i][2] < items[j][2]
                 \/ items[i][2] = items[j][2] /\ ElemRank(items[i][1]) < ElemRank(items[j][1])

\* the members stored for the sorted set named key, read from the tables
ZMembers(d, key) ==
    {<<r.elem, r.score>> : r \in {q \in d.rzset :
        \E k \in d.rkey : k.key = key /\ k.type = TypeZSet /\ k.id = q.kid}}

RankArgs == 0..2
\* <<min, max>> of the ranges by score
ScoreRanges == {<<0, 3>>, <<1, 1>>, <<2, 2>>, <<1, 2>>, <<2, 1>>, <<2, 3>>}

\* C28: ZRANGE by rank and by score returns members in ascending (score,
\* elem) order, ties on the score by ascending element, and with REV exactly
\* the reverse; a by-score range holds exactly the members with
\* min <= score <= max; a missing or non-zset key gives an empty result.
RangeInScoreOrder ==
    \A key \in SetKeys :
        /\ \A mm \in ScoreRanges :
             LET min == mm[1]
                 max == mm[2]
                 fwd == ZRangeScore(db, now, key, min, max, FALSE)
                 rev == ZRangeScore(db, now, key, min, max, TRUE)
             IN /\ fwd.err = NoErr /\ rev.err = NoErr
                /\ Ascending(fwd.val)
                /\ rev.val = Reverse(fwd.val)
                /\ SeqRange(fwd.val) =
                     {m \in ZMembers(db, key) : min <= m[2] /\ m[2] <= max}
        /\ LET all == ZRangeRank(db, now, key, 0, 2, FALSE).val
               allRev == ZRangeRank(db, now, key, 0, 2, TRUE).val
               n == Len(all)
           IN /\ Ascending(all)
              /\ SeqRange(all) = ZMembers(db, key)
              /\ allRev = Reverse(all)
              /\ \A start \in RankArgs, stop \in RankArgs :
                   LET fwd == ZRangeRank(db, now, key, start, stop, FALSE)
                       rev == ZRangeRank(db, now, key, start, stop, TRUE)
                       to == IF stop + 1 < n THEN stop + 1 ELSE n
                   IN /\ fwd.err = NoErr /\ rev.err = NoErr
                      /\ fwd.val = SubSeq(all, start + 1, to)
                      /\ rev.val = SubSeq(allRev, start + 1, to)

\* A sorted set whose element order and score order disagree, just extended.
RangeOfTiedAndUntied ==
    /\ last.op = "ZAdd" /\ last.err = NoErr /\ last.val = TRUE /\ last.key = "k1"
    /\ ZRangeRank(db, now, "k1", 0, 1, FALSE).val = <<<<"b", 1>>, <<"a", 2>>>>
    /\ ZRangeScore(db, now, "k1", 1, 2, TRUE).val = <<<<"a", 2>>, <<"b", 1>>>>

ZRankArgs == -3..2

\* the sorted set at key by rank, as items
ByRank(d, t, key) == ZItems(OrderByScore(LiveZSet(d, t, key)))

\* C29 as stated: a range by rank resolves negative start and stop against
\* the cardinality as list Range does, so (-2, -1) returns the two members of
\* highest rank.
ZRankResolvesNegative ==
    \A key \in SetKeys, start \in ZRankArgs, stop \in ZRankArgs :
        ZRangeRank(db, now, key, start, stop, FALSE).val =
            Slice(ByRank(db, now, key), start, stop)

\* C29, amended: a range by rank does not resolve negative indices: with a
\* negative start or stop it returns nothing, so (-2, -1) is empty whatever
\* the cardinality; with both non-negative it returns the ranks start..stop,
\* stop clipped at the last rank.
ZRankNegativeIsEmpty ==
    \A key \in SetKeys, start \in ZRankArgs, stop \in ZRankArgs :
        LET r == ZRangeRank(db, now, key, start, stop, FALSE) IN
        /\ r.err = NoErr
        /\ r.val = IF start < 0 \/ stop < 0 THEN <<>>
                   ELSE Slice(ByRank(db, now, key), start, stop)

\* A sorted set of two members, just completed, whose range (-2, -1) is empty.
ZRankOfLastTwo ==
    /\ last.op = "ZAdd" /\ last.err = NoErr /\ last.val = TRUE
    /\ Len(ByRank(db, now, last.key)) = 2
    /\ ZRangeRank(db, now, last.key, -2, -1, FALSE).val = <<>>
    /\ ZRangeRank(db, now, last.key, 0, 1, FALSE).val = ByRank(db, now, last.key)

\* the score stored for elem in the sorted set named key
StoredScore(d, key, elem) == (CHOOSE m \in ZMembers(d, key) : m[1] = elem)[2]

\* the score that aggregate makes of one or two scores
Folded(aggregate, scores) ==
    IF Len(scores) = 1 THEN scores[1]
    ELSE CASE aggregate = "sum" -> scores[1] + scores[2]
           [] aggregate = "min" -> IF scores[1] <= scores[2] THEN scores[1] ELSE scores[2]
           [] aggregate = "max" -> IF scores[1] >= scores[2] THEN scores[1] ELSE scores[2]

\* C30: ZINTERSTORE stores at dest exactly the members present in every
\* source sorted set, each with its source scores folded by the aggregate,
\* in place of any sorted set that was at dest, and returns their number; with
\* a source that is missing or no sorted set the result is empty, 0 is
\* returned and dest has no members.
ZInterStoreFolds ==
    ~HeldByOther(db, now, Dest, TypeZSet) =>
        \A keys \in KeySeqs \cup {<<Dest, "k1">>}, a \in Aggregates :
            LET r == ZInterStore(db, now, Dest, keys, a)
                common == {e \in Elems : \A i \in 1..Len(keys) :
                             \E m \in ZMembers(db, keys[i]) : m[1] = e}
                want == {<<e, Folded(a, [i \in 1..Len(keys) |->
                                           StoredScore(db, keys[i], e)])>> : e \in common}
            IN /\ r.err = NoErr
               /\ r.val = Cardinality(common)
               /\ ZMembers(r.db, Dest) = want
               /\ {<<m.elem, m.score>> : m \in LiveZSet(r.db, now, Dest)} = want
               /\ (\E i \in 1..Len(keys) : ZMembers(db, keys[i]) = {}) =>
                     r.val = 0 /\ ZMembers(r.db, Dest) = {}

\* ZINTERSTORE has just stored the one common member of two sorted sets
\* under a score that neither source gives it.
StoredFoldedScore ==
    /\ last.op = "ZInterStore" /\ last.err = NoErr /\ last.val = 1
    /\ \E e \in Elems :
         /\ ZMembers(db, Dest) = {<<e, 3>>}
         /\ <<e, 1>> \in ZMembers(db, "k1") /\ <<e, 2>> \in ZMembers(db, Other)

\* C31: deleteByScore(key, min, max) removes exactly the members with
\* min <= score <= max, negative scores included, returns their number and
\* lowers the length of the sorted set by it; the other members keep their
\* scores and every other key is untouched; on a missing key or a key of
\* another type it returns 0 and changes nothing.
KeyRowOf(d, key) == {k \in d.rkey : k.key = key}
RemovedByScore ==
    \A key \in ZRemKeys, min \in ScoreBounds, max \in ScoreBounds :
        LET r == ZDeleteByScore(db, now, key, min, max)
            before == ZMembers(db, key)
            hit == {m \in before : min <= m[2] /\ m[2] <= max}
        IN /\ r.err = NoErr
           /\ r.val = Cardinality(hit)
           /\ ZMembers(r.db, key) = before \ hit
           /\ \A k \in ZRemKeys \ {key} :
                /\ ZMembers(r.db, k) = ZMembers(db, k)
                /\ KeyRowOf(r.db, k) = KeyRowOf(db, k)
           /\ r.db.rstring = db.rstring
           /\ IF \E k \in KeyRowOf(db, key) : k.type = TypeZSet
              THEN \E k \in KeyRowOf(db, key), q \in KeyRowOf(r.db, key) :
                     /\ q.id = k.id /\ q.type = TypeZSet
                     /\ q.len = k.len - r.val
                     /\ q.len = Cardinality(ZMembers(r.db, key))
              ELSE r.val = 0 /\ r.db = db

\* a removal by score has taken members away and left one of negative score,
\* and the key's length is the number of members left
RemovedSomeKeptNegative ==
    /\ last.op = "ZDeleteByScore" /\ last.err = NoErr /\ last.val >= 1
    /\ \E m \in ZMembers(db, last.key) : m[2] < 0
    /\ \E k \in KeyRowOf(db, last.key) : k.len = Cardinality(ZMembers(db, last.key))

\* C32: the dialect of the statements an instance issues is the one of the
\* driver it was opened with, whatever instances were constructed later:
\* Trim behaves as it does with the flag of the instance's own driver.
DialectOfInstance ==
    \A key \in Keys, se \in Trims :
        ListTrim(db, now, key, se[1], se[2], isPostgres, Postgres)
            = ListTrim(db, now, key, se[1], se[2], Postgres, Postgres)

\* Trim has been called on a list of three after an instance of the other
\* driver was constructed, and failed in the database
TrimInOtherDialect ==
    /\ last.op = "ListTrim" /\ last.err = ErrDB
    /\ isPostgres # Postgres
    /\ \E k \in db.rkey : k.key = last.key /\ k.type = TypeList /\ k.len = 3

\* the index of the first element of s equal to e (0: none)
FirstIndex(s, e) ==
    IF \E i \in 1..Len(s) : s[i] = e
    THEN CHOOSE i \in 1..Len(s) : s[i] = e /\ \A j \in 1..(i - 1) : s[j] # e
    ELSE 0

\* the index of the last element of s equal to e (0: none)
LastIndex(s, e) ==
    IF \E i \in 1..Len(s) : s[i] = e
    THEN CHOOSE i \in 1..Len(s) : s[i] = e /\ \A j \in (i + 1)..Len(s) : s[j] # e
    ELSE 0

\* the positions of the rows of the live list key, in list order
Positions(d, t, key) ==
    LET ck == CurKey(d, key, TypeList, t)
        rows == IF ck = {} THEN <<>> ELSE OrderByPos(ListRows(d, RowOf(ck).id))
    IN [i \in 1..Len(rows) |-> rows[i].pos]

\* the live list key holds pivot, and r is the outcome of an insert of elem
\* that put it at index i (from 1) of the old elements and left them in order
InsertedAt(d, t, key, r, elem, i) ==
    LET before == Elements(d, t, key) IN
    /\ r.err = NoErr
    /\ Elements(r.db, t, key) =
          SubSeq(before, 1, i - 1) \o <<elem>> \o SubSeq(before, i, Len(before))
    /\ r.val = Len(before) + 1

\* the states in which InsertBefore is tried: the current one and the one
\* after one more PushBack
AfterOnePush(key) ==
    {db} \cup {ExecTxEnd(db, PushBack(db, now, key, e)) : e \in Elems}

\* C33: InsertBefore(key, pivot, elem) on a list that contains pivot puts
\* elem at the index of the first occurrence of pivot, one position step
\* before a pivot at the head and half way between its neighbours otherwise,
\* keeps the order of the existing elements and returns the new length.
InsertBeforeFirst ==
    \A key \in Keys, pivot \in Elems, elem \in Elems :
        \A d \in AfterOnePush(key) :
            LET before == Elements(d, now, key)
                i == FirstIndex(before, pivot)
                r == InsertBefore(d, now, key, pivot, elem)
                pos == Positions(d, now, key)
                new == Positions(r.db, now, key)
            IN i > 0 =>
                 /\ InsertedAt(d, now, key, r, elem, i)
                 /\ IF i = 1 THEN new[1] = pos[1] - PosUnit
                    ELSE 2 * new[i] = pos[i - 1] + pos[i]

\* InsertBefore has put an element between two others, before the first of
\* two pivots
InsertedBeforeFirstOfTwo ==
    /\ last.op = "InsertBefore" /\ last.err = NoErr /\ last.val = 3
    /\ Elements(db, now, last.key) = <<"a", "b", "a">>

\* s with e put in after its first i elements
PutAfter(s, i, e) == SubSeq(s, 1, i) \o <<e>> \o SubSeq(s, i + 1, Len(s))

\* C34 as stated: InsertAfter locates the pivot at the greatest position
\* among the elements equal to it and puts elem directly after the last
\* occurrence of pivot.
InsertAfterLast ==
    \A key \in Keys, pivot \in Elems, elem \in Elems :
        LET before == Elements(db, now, key)
            i == LastIndex(before, pivot)
            r == InsertAfter(db, now, key, pivot, elem)
        IN (i > 0 /\ r.err = NoErr) =>
              Elements(r.db, now, key) = PutAfter(before, i, elem)

\* C34: InsertAfter locates the pivot at the least position among the
\* elements equal to it, as InsertBefore does: an insert that succeeds has
\* put elem directly after the first occurrence of pivot, one position step
\* behind a pivot at the tail and between the pivot and its successor
\* otherwise, and has kept the order of the existing elements.
InsertAfterFirst ==
    \A key \in Keys, pivot \in Elems, elem \in Elems :
        LET before == Elements(db, now, key)
            i == FirstIndex(before, pivot)
            r == InsertAfter(db, now, key, pivot, elem)
            pos == Positions(db, now, key)
            new == Positions(r.db, now, key)
        IN (i > 0 /\ r.err = NoErr) =>
              /\ Elements(r.db, now, key) = PutAfter(before, i, elem)
              /\ IF i = Len(before) THEN new[i + 1] = pos[i] + PosUnit
                 ELSE pos[i] < new[i + 1] /\ new[i + 1] < pos[i + 1]

\* InsertAfter has put an element between two equal pivots
InsertedAfterFirstOfTwo ==
    /\ last.op = "InsertAfter" /\ last.err = NoErr /\ last.val = 3
    /\ Elements(db, now, last.key) = <<"a", "b", "a">>

\* the number of '?' among the first n characters of q
RECURSIVE CountMarks(_, _)
CountMarks(q, n) ==
    IF n = 0 THEN 0 ELSE CountMarks(q, n - 1) + (IF q[n] = "?" THEN 1 ELSE 0)

\* sent is q with its i-th '?' replaced by "$" and the numeral of i, every
\* other character in place
NumberedFrom(q, sent) ==
    /\ Len(sent) = Len(q) + CountMarks(q, Len(q))
    /\ \A i \in 1..Len(q) :
          LET j == i + CountMarks(q, i - 1) IN
          IF q[i] = "?"
          THEN sent[j] = "$" /\ sent[j + 1] = Itoa(CountMarks(q, i))
          ELSE sent[j] = q[i]

Issued == last.op \in {"ExecConverted", "ExecWritten"}

\* C35: a statement reaches PostgreSQL with its i-th '?' rewritten to $i and
\* nothing else changed, and reaches SQLite with its '?' left as they are.
PlaceholdersByEngine ==
    Issued => IF Postgres THEN NumberedFrom(last.key, last.val)
              ELSE last.val = last.key

\* a statement with two placeholders has reached SQLite from a repository
\* method that converts it
ConvertedForSQLite ==
    /\ last.op = "ExecConverted" /\ ~Postgres
    /\ CountMarks(last.key, Len(last.key)) = 2
    /\ NumberedFrom(last.key, last.val)

\* the step is a call of Scan() on the running Scanner
ScanCalled == sc.active /\ sc'.calls = sc.calls + 1

\* C36: a Scanner stops for good.  A Scan() that returns true yields the next
\* item of the pages fetched, each once and in page order; after a Scan()
\* that returned false every Scan() returns false, fetches nothing and yields
\* nothing; Err() is the first error a fetch returned.
ScannerStopsForGood ==
    [][ScanCalled =>
          /\ sc'.ok => /\ sc'.out = Append(sc.out, ScannerItem(sc'))
                       /\ sc'.out = SubSeq(sc'.fetched, 1, Len(sc'.out))
          /\ sc.stopped => /\ ~sc'.ok
                           /\ sc'.fetches = sc.fetches
                           /\ sc'.out = sc.out
          /\ ScannerErr(sc') = sc'.first]_vars

\* a Scanner over a hash of one field has yielded the field, returned false
\* and then yielded the field again
ScannerRestarted ==
    /\ sc.active /\ sc.stopped /\ sc.ok /\ ScannerErr(sc) = NoErr
    /\ Cardinality(LiveHash(db, now, sc.key)) = 1
    /\ Len(sc.out) = 2 /\ sc.out[1] = sc.out[2]

\* the integer in field f of the hash k1 (0: no such field)
FieldInt(d) == Atoi(HashGet(d, now, "k1", "f").val).n

\* both Updates have made their Incr and returned nil
BothIncremented ==
    \A p \in Procs :
        pc[p] = "idle" /\ ret[p].update = NoErr
        /\ Len(steps[p]) = 1 /\ steps[p][1] \in IncrOps

\* C37: no update is lost between concurrent increments: after Incr by d1
\* and Incr by d2, each in an Update of its own on the same instance, the
\* field is old + d1 + d2, and the calls returned old + d1 and old + d1 + d2
\* in one of the two orders.
NoLostIncrement ==
    BothIncremented =>
        LET old == IF last.op = "Seed" THEN Atoi(last.val).n ELSE 0
            d1 == Delta(steps["p1"][1])
            d2 == Delta(steps["p2"][1])
        IN /\ FieldInt(db) = old + d1 + d2
           /\ \/ seen["p1"] = old + d1 /\ seen["p2"] = old + d1 + d2
              \/ seen["p2"] = old + d2 /\ seen["p1"] = old + d1 + d2

\* two Updates have incremented a field that was set before, by different
\* amounts, and the field holds the sum
IncrementedTwice ==
    /\ BothIncremented /\ last.op = "Seed"
    /\ steps["p1"] # steps["p2"]
    /\ FieldInt(db) = Atoi(last.val).n + 3

\* C38: every Update and View call whose closure terminates itself
\* terminates, with the transaction ended and its result returned, also when
\* several Updates are called at once: each call waiting for the connection
\* of the read-write handle obtains it, and no call stays open for ever.
CallsTerminate ==
    \A p \in Procs :
        /\ (pc[p] = "waiting") ~> (pc[p] = "update")
        /\ (pc[p] # "idle") ~> (pc[p] = "idle" /\ ret[p].update # NoCall)

\* one Update waits for the connection while the transaction of another,
\* which has written, is open
WriterWaits ==
    /\ pc["p1"] = "waiting" /\ pc["p2"] = "update"
    /\ steps["p2"] = <<"HashSet">>

\* C39: a View cannot change the database, whatever the driver and the data
\* source: the step that ends a View leaves the committed database as it
\* was, so a write issued through its tx has failed or is never visible.
ViewChangesNothing ==
    [][\A p \in Procs : (pc[p] = "view" /\ pc'[p] = "idle") => db' = db]_vars

\* a View on an in-memory SQLite database has written to a hash and
\* returned nil, and the field is in the committed database
ViewWroteInMemory ==
    /\ last.key = ":memory:" /\ ~Postgres
    /\ \E p \in Procs : /\ pc[p] = "idle" /\ ret[p].update = NoErr
                        /\ steps[p] = <<"HashSet">>
    /\ HashGet(db, now, "k1", "f").val = "1"

\* the increments tried: small ones and the two ends of the int range
WideDeltas == Deltas \cup {MinGoInt, MaxGoInt}

\* C40: Incr never stores or returns a wrapped-around number: on an integer
\* field (0 when absent) of a hash or of a missing key, a sum old + delta
\* outside the int range makes the call fail and leaves the field as it was,
\* and a call that succeeds returns and stores exactly old + delta.
IncrNeverWraps ==
    \A key \in Keys, f \in Fields, delta \in WideDeltas :
        LET r == Incr(db, now, key, f, delta)
            cur == HashGet(db, now, key, f).val
            sum == Atoi(cur).n + delta
        IN (Atoi(cur).ok /\ \A k \in db.rkey : k.key = key => k.type = TypeHash) =>
              IF sum < MinGoInt \/ sum > MaxGoInt
              THEN r.err # NoErr /\ ExecTxEnd(db, r) = db
              ELSE r.err = NoErr =>
                     /\ r.val = sum
                     /\ \E k \in r.db.rkey, row \in r.db.rhash :
                          /\ k.key = key /\ row.kid = k.id /\ row.field = f
                          /\ Atoi(row.value) = [ok |-> TRUE, n |-> sum]

\* decrements have brought a field next to the least int, and a further
\* Incr by the least int succeeds with a positive number
IncrBelowMinInt ==
    /\ last.op = "Incr" /\ last.err = NoErr /\ last.val = MinGoInt + 1
    /\ \E f \in Fields :
         LET r == Incr(db, now, last.key, f, MinGoInt) IN
         /\ HashGet(db, now, last.key, f).val = Itoa(MinGoInt + 1)
         /\ r.err = NoErr /\ r.val > 0

====
